---- MODULE Spec2Model ----
(***************************************************************************)
(* Contact-form Lambda handler (src/lambda/contact-form/index.mjs).        *)
(*                                                                         *)
(* Strings are sequences of one-character strings.  JavaScript values are  *)
(* records [t, s, n]: t is the type tag, s the characters of a string and  *)
(* n the value of a number.  Confidences and the threshold are counted in  *)
(* hundredths (0.8 is 80).                                                 *)
(***************************************************************************)
EXTENDS Integers, Sequences, FiniteSets, TLC

VARIABLES
    config,                \* CONFIG, read from the environment at load time
    pc,                    \* where each invocation of the handler stands
    event, clients,        \* the event and the client instances of each
    clientArgs,            \* what was passed for sesClient, bedrockClient, dynamoClient
    requestId,             \* the request id of each invocation's log lines
    contactData,           \* the validated submission
    classificationResult,  \* the result of classifySubmission, or null
    submissionId,          \* what logBlockedSubmission returned
    bedrockCalls, dynamoCalls, sesCalls,  \* the commands sent to each client
    response,              \* what the handler returned
    caughtError,           \* the error the handler's catch block logged
    table,                 \* the items of the blocked-submissions table
    uuidCount,             \* how many ids randomUUID has handed out
    submission,            \* the data given to validateContactForm alone
    validation             \* what validateContactForm made of it

vars == <<config, pc, event, clients, clientArgs, requestId, contactData,
          classificationResult, submissionId, bedrockCalls, dynamoCalls, sesCalls, response,
          caughtError, table, uuidCount, submission, validation>>

(***************************************************************************)
(* JavaScript values                                                       *)
(***************************************************************************)
Undefined == [t |-> "undefined", s |-> <<>>, n |-> 0]

Null == [t |-> "null", s |-> <<>>, n |-> 0]

Str(chars) == [t |-> "string", s |-> chars, n |-> 0]

Num(k) == [t |-> "number", s |-> <<>>, n |-> k]

\* !value
Falsy(v) ==
    \/ v.t \in {"undefined", "null"}
    \/ v.t = "string" /\ v.s = <<>>
    \/ v.t = "number" /\ v.n = 0

(***************************************************************************)
(* Character classes of the validation patterns and of String.trim         *)
(***************************************************************************)
\* \s
WhiteSpace == {" ", "\t", "\n", "\r"}

\* \p{Z}
Separators == {" "}

\* \p{L}
Letters == {"a", "b", "c", "e", "i", "o", "H", "J", "W"}

\* \d, \p{N}
Digits == {"0", "1", "2", "5"}

\* \p{P}
Punctuation == {"!", ".", ",", "-", "'", "(", ")", "@", "?"}

RECURSIVE TrimStart(_)
TrimStart(s) ==
    IF s # <<>> /\ Head(s) \in WhiteSpace THEN TrimStart(Tail(s)) ELSE s

RECURSIVE TrimEnd(_)
TrimEnd(s) ==
    IF s # <<>> /\ s[Len(s)] \in WhiteSpace
    THEN TrimEnd(SubSeq(s, 1, Len(s) - 1))
    ELSE s

\* String.prototype.trim
Trim(s) == TrimEnd(TrimStart(s))

AllIn(s, class) == \A k \in 1..Len(s) : s[k] \in class

\* /^[^\s@]+@[^\s@]+\.[^\s@]+$/
EmailPattern(s) ==
    \E a \in 2..Len(s) : \E d \in (a + 2)..(Len(s) - 1) :
        /\ s[a] = "@"
        /\ s[d] = "."
        /\ \A k \in 1..Len(s) : k # a => s[k] \notin (WhiteSpace \cup {"@"})

\* /^[\p{L}\s'-]+$/u
NamePattern(s) == s # <<>> /\ AllIn(s, Letters \cup WhiteSpace \cup {"'", "-"})

\* /^[\d\s+()-]+$/
PhonePattern(s) ==
    s # <<>> /\ AllIn(s, Digits \cup WhiteSpace \cup {"+", "(", ")", "-"})

\* /^[\p{L}\p{N}\p{P}\p{Z}\n\r]+$/u
MessagePattern(s) ==
    s # <<>> /\ AllIn(s, Letters \cup Digits \cup Punctuation
                            \cup Separators \cup {"\n", "\r"})

PatternTest(fieldName, s) ==
    CASE fieldName = "email" -> EmailPattern(s)
      [] fieldName = "name" -> NamePattern(s)
      [] fieldName = "phone" -> PhonePattern(s)
      [] fieldName = "message" -> MessagePattern(s)

(***************************************************************************)
(* Configuration (CONFIG, VALIDATION)                                      *)
(***************************************************************************)
EmailMaxLength == 255

DefaultMaxMessageLength == 2048

DefaultMaxNameLength == 100

DefaultMaxPhoneLength == 20

DefaultSubjectWordCount == 8

DefaultThreshold == 80

\* The settings taken from the environment.  The threshold 0 is the one
\* that every numeric confidence reaches; the origin is * or the site's.
ConfigSet ==
    { [ allowedOrigin |-> c[3],
        maxMessageLength |-> DefaultMaxMessageLength,
        maxNameLength |-> DefaultMaxNameLength,
        maxPhoneLength |-> DefaultMaxPhoneLength,
        subjectWordCount |-> DefaultSubjectWordCount,
        spamDetectionEnabled |-> c[1],
        spamConfidenceThreshold |-> c[2] ] :
      c \in {<<FALSE, DefaultThreshold, "*">>, <<TRUE, DefaultThreshold, "*">>,
             <<TRUE, 0, "*">>, <<TRUE, DefaultThreshold, "https://fredjean.net">>} }

MaxLength(cfg, fieldName) ==
    CASE fieldName = "email" -> EmailMaxLength
      [] fieldName = "name" -> cfg.maxNameLength
      [] fieldName = "phone" -> cfg.maxPhoneLength
      [] fieldName = "message" -> cfg.maxMessageLength

(***************************************************************************)
(* validateField, validateContactForm                                      *)
(* A result is [ok |-> TRUE, value] or [ok |-> FALSE, field, message]: the *)
(* ValidationError of that field.  A message is [field, text, n], read     *)
(* "<field> <text>", with n the length named by the too-long message.      *)
(***************************************************************************)
FieldOrder == <<"email", "name", "phone", "message">>

NoMessage == [field |-> "", text |-> "", n |-> 0]

ValidationError(fieldName, text, n) ==
    [ok |-> FALSE, field |-> fieldName,
     message |-> [field |-> fieldName, text |-> text, n |-> n], value |-> <<>>]

\* validateField that checks the trimmed value and returns the value as it
\* came.
validateFieldUntrimmed(cfg, value, fieldName) ==
    IF Falsy(value) \/ value.t # "string"
    THEN ValidationError(fieldName, "is required", 0)
    ELSE LET trimmed == Trim(value.s)
         IN  IF Len(trimmed) = 0
             THEN ValidationError(fieldName, "cannot be empty", 0)
             ELSE IF Len(trimmed) > MaxLength(cfg, fieldName)
             THEN ValidationError(fieldName, "must be less than n characters",
                                  MaxLength(cfg, fieldName))
             ELSE IF ~PatternTest(fieldName, trimmed)
             THEN ValidationError(fieldName, "contains invalid characters", 0)
             ELSE [ok |-> TRUE, field |-> fieldName, message |-> NoMessage,
                   value |-> value.s]

\* validateField without its first check: a field may be left out.
validateFieldOptional(cfg, value, fieldName) ==
    IF Falsy(value) \/ value.t # "string"
    THEN [ok |-> TRUE, field |-> fieldName, message |-> NoMessage, value |-> <<>>]
    ELSE LET trimmed == Trim(value.s)
         IN  IF Len(trimmed) = 0
             THEN ValidationError(fieldName, "cannot be empty", 0)
             ELSE IF Len(trimmed) > MaxLength(cfg, fieldName)
             THEN ValidationError(fieldName, "must be less than n characters",
                                  MaxLength(cfg, fieldName))
             ELSE IF ~PatternTest(fieldName, trimmed)
             THEN ValidationError(fieldName, "contains invalid characters", 0)
             ELSE [ok |-> TRUE, field |-> fieldName, message |-> NoMessage,
                   value |-> trimmed]

\* validateField that tests the pattern before the length.
validateFieldPatternFirst(cfg, value, fieldName) ==
    IF Falsy(value) \/ value.t # "string"
    THEN ValidationError(fieldName, "is required", 0)
    ELSE LET trimmed == Trim(value.s)
         IN  IF Len(trimmed) = 0
             THEN ValidationError(fieldName, "cannot be empty", 0)
             ELSE IF ~PatternTest(fieldName, trimmed)
             THEN ValidationError(fieldName, "contains invalid characters", 0)
             ELSE IF Len(trimmed) > MaxLength(cfg, fieldName)
             THEN ValidationError(fieldName, "must be less than n characters",
                                  MaxLength(cfg, fieldName))
             ELSE [ok |-> TRUE, field |-> fieldName, message |-> NoMessage,
                   value |-> trimmed]

validateField(cfg, value, fieldName) ==
    IF Falsy(value) \/ value.t # "string"
    THEN ValidationError(fieldName, "is required", 0)
    ELSE LET trimmed == Trim(value.s)
         IN  IF Len(trimmed) = 0
             THEN ValidationError(fieldName, "cannot be empty", 0)
             ELSE IF Len(trimmed) > MaxLength(cfg, fieldName)
             THEN ValidationError(fieldName, "must be less than n characters",
                                  MaxLength(cfg, fieldName))
             ELSE IF ~PatternTest(fieldName, trimmed)
             THEN ValidationError(fieldName, "contains invalid characters", 0)
             ELSE [ok |-> TRUE, field |-> fieldName, message |-> NoMessage,
                   value |-> trimmed]

\* validateContactForm that validates every field and reports the last
\* failure.
validateContactFormLastFailure(cfg, data) ==
    LET r == [k \in 1..4 |-> validateField(cfg, data[FieldOrder[k]], FieldOrder[k])]
        failing == {k \in 1..4 : ~r[k].ok}
    IN  IF failing = {}
        THEN [ok |-> TRUE, field |-> "", message |-> NoMessage,
              value |-> [email |-> r[1].value, name |-> r[2].value,
                         phone |-> r[3].value, message |-> r[4].value]]
        ELSE LET last == CHOOSE k \in failing : \A j \in failing : k >= j
             IN  [ok |-> FALSE, field |-> r[last].field,
                  message |-> r[last].message, value |-> <<>>]

\* The fields are validated in the order of the object literal and the first
\* failure is thrown.  data is an object here: the handler covers the rest.
validateContactForm(cfg, data) ==
    LET r == [k \in 1..4 |-> validateField(cfg, data[FieldOrder[k]], FieldOrder[k])]
        failing == {k \in 1..4 : ~r[k].ok}
    IN  IF failing = {}
        THEN [ok |-> TRUE, field |-> "", message |-> NoMessage,
              value |-> [email |-> r[1].value, name |-> r[2].value,
                         phone |-> r[3].value, message |-> r[4].value]]
        ELSE LET first == CHOOSE k \in failing : \A j \in failing : k <= j
             IN  [ok |-> FALSE, field |-> r[first].field,
                  message |-> r[first].message, value |-> <<>>]

(***************************************************************************)
(* createResponse                                                          *)
(***************************************************************************)
\* createResponse that allows every origin.
createResponseAnyOrigin(cfg, statusCode, body) ==
    [statusCode |-> statusCode,
     headers |-> [ContentType |-> "application/json",
                  AccessControlAllowOrigin |-> "*",
                  AccessControlAllowHeaders |-> "Content-Type",
                  AccessControlAllowMethods |-> "POST, OPTIONS"],
     body |-> body]

createResponse(cfg, statusCode, body) ==
    [statusCode |-> statusCode,
     headers |-> [ContentType |-> "application/json",
                  AccessControlAllowOrigin |-> cfg.allowedOrigin,
                  AccessControlAllowHeaders |-> "Content-Type",
                  AccessControlAllowMethods |-> "POST, OPTIONS"],
     body |-> body]

PreflightBody == [message |-> "OK"]

InvalidFormatBody ==
    [error |-> [field |-> "", text |-> "Invalid request format", n |-> 0]]

\* ValidationBody without the field.
ValidationBodyNoField(err) == [error |-> err.message]

ValidationBody(err) == [error |-> err.message, field |-> err.field]

SuccessBody ==
    [message |-> "Thank you for contacting us! Your message has been sent.",
     success |-> TRUE]

SendFailureBody ==
    [error |-> [field |-> "",
                text |-> "Unable to send message. Please try again later.",
                n |-> 0]]

\* No response yet, and the mark of an exception that left the handler.
NoResponse == [statusCode |-> 0, headers |-> [none |-> ""], body |-> [none |-> ""]]

Escaped == [statusCode |-> -1, headers |-> [none |-> ""], body |-> [none |-> ""]]

(***************************************************************************)
(* The event and the decoding of its body                                  *)
(*                                                                         *)
(* A body is absent (undefined) or a string, described by how it was       *)
(* written: wire "json" is JSON.stringify(val), wire "form" is the         *)
(* URL-encoded pairs of val, wire "junk" is any other text; b64 says       *)
(* whether that string is sent base64-encoded.  A JSON value is an object  *)
(* with the four fields (an absent key is Undefined), null, or a           *)
(* primitive.                                                              *)
(***************************************************************************)
NoFields ==
    [email |-> Undefined, name |-> Undefined, phone |-> Undefined,
     message |-> Undefined]

Object(fields) == [kind |-> "object", fields |-> fields]

AbsentBody == [wire |-> "absent", b64 |-> FALSE, val |-> [kind |-> "undefined", fields |-> NoFields]]

JsonBody(val, b64) == [wire |-> "json", b64 |-> b64, val |-> val]

FormBody(fields, b64) == [wire |-> "form", b64 |-> b64, val |-> Object(fields)]

JunkBody == [wire |-> "junk", b64 |-> FALSE, val |-> [kind |-> "undefined", fields |-> NoFields]]

\* One character of an URL-encoded value, as URLSearchParams reads it.
FormDecodeChar(c) ==
    CASE c = "+" -> " "
      [] c = "%2B" -> "+"
      [] c = "%40" -> "@"
      [] c = "%20" -> " "
      [] c = "%0A" -> "\n"
      [] OTHER -> c

FormDecodeValue(v) ==
    IF v.t = "string" THEN Str([k \in 1..Len(v.s) |-> FormDecodeChar(v.s[k])]) ELSE v

\* isBase64 ? Buffer.from(body, 'base64').toString('utf-8') : body
\* Buffer.from throws on undefined; decoding a string that is not base64
\* gives junk; a base64 string taken as it is is junk too.
DecodeBody(ev) ==
    IF ev.isBase64Encoded
    THEN IF ev.body.wire = "absent"
         THEN [threw |-> TRUE, text |-> AbsentBody]
         ELSE [threw |-> FALSE,
               text |-> IF ev.body.b64 THEN [ev.body EXCEPT !.b64 = FALSE] ELSE JunkBody]
    ELSE [threw |-> FALSE, text |-> IF ev.body.b64 THEN JunkBody ELSE ev.body]

\* ContentType that looks under the lower-case key only.
ContentTypeLowerOnly(ev) == ev.headers.lower

\* event.headers?.['content-type'] || event.headers?.['Content-Type'] || ''
ContentType(ev) ==
    IF ev.headers.lower # "" THEN ev.headers.lower ELSE ev.headers.upper

\* contentType.includes('application/x-www-form-urlencoded')
FormContentTypes ==
    {"application/x-www-form-urlencoded",
     "application/x-www-form-urlencoded; charset=UTF-8"}

UndefinedData == [kind |-> "undefined", fields |-> NoFields]

\* ParseJson with a JSON.parse that gives undefined instead of throwing.
ParseJsonLenient(text) ==
    [threw |-> FALSE,
     data |-> IF text.wire = "json" THEN text.val ELSE UndefinedData]

\* typeof decodedBody === 'string' ? JSON.parse(decodedBody) : decodedBody
ParseJson(text) ==
    IF text.wire = "absent" THEN [threw |-> FALSE, data |-> UndefinedData]
    ELSE IF text.wire = "json" THEN [threw |-> FALSE, data |-> text.val]
    ELSE [threw |-> TRUE, data |-> UndefinedData]

\* The try block of the handler that parses the body: [threw, data].
ParseBody(ev) ==
    LET d == DecodeBody(ev)
        undef == UndefinedData
    IN  IF d.threw THEN [threw |-> TRUE, data |-> undef]
        ELSE IF ContentType(ev) \in FormContentTypes
        THEN \* URLSearchParams never throws; unknown text has none of the keys
             [threw |-> FALSE,
              data |-> IF d.text.wire = "form"
                       THEN Object([f \in DOMAIN d.text.val.fields |->
                                       FormDecodeValue(d.text.val.fields[f])])
                       ELSE Object(NoFields)]
        ELSE ParseJson(d.text)

(***************************************************************************)
(* generateSubject, formatEmailBody, the SendEmailCommand                  *)
(***************************************************************************)
\* The classification result of an invocation without spam detection.
NullResult ==
    [present |-> FALSE, classification |-> "", confidence |-> Undefined,
     reason |-> [kind |-> "", text |-> ""], failedOpen |-> FALSE]

\* message.replace(/\s+/g, ' ')
RECURSIVE CollapseWhiteSpace(_)
CollapseWhiteSpace(s) ==
    IF s = <<>> THEN <<>>
    ELSE IF Head(s) \in WhiteSpace
    THEN <<" ">> \o CollapseWhiteSpace(TrimStart(s))
    ELSE <<Head(s)>> \o CollapseWhiteSpace(Tail(s))

\* s.split(' ').slice(0, n).join(' '): s up to its n-th space
RECURSIVE FirstWords(_, _)
FirstWords(s, n) ==
    IF s = <<>> \/ n = 0 THEN <<>>
    ELSE IF Head(s) = " "
    THEN IF n = 1 THEN <<>> ELSE <<" ">> \o FirstWords(Tail(s), n - 1)
    ELSE <<Head(s)>> \o FirstWords(Tail(s), n)

AttentionMarker == "(raised eyebrow)"

\* a < b, a > b, a >= b of JavaScript, for a number b: undefined is NaN
\* and compares false, null is 0.
IsNumeric(v) == v.t \in {"number", "null"}

NumberOf(v) == IF v.t = "number" THEN v.n ELSE 0

JsLess(v, b) == IsNumeric(v) /\ NumberOf(v) < b

JsGreaterEq(v, b) == IsNumeric(v) /\ NumberOf(v) >= b

CleanConfidence == 90

\* isNotClean that marks every classification but a confident LEGITIMATE.
isNotCleanUnlessLegitimate(result) ==
    ~(result.classification = "LEGITIMATE" /\ JsGreaterEq(result.confidence, CleanConfidence))

isNotClean(result) ==
    \/ result.classification = "SALES"
    \/ result.classification = "LEGITIMATE" /\ JsLess(result.confidence, CleanConfidence)

\* generateSubject that puts the marker before every subject.
generateSubjectAlwaysMarked(cfg, message, result) ==
    LET words == Trim(CollapseWhiteSpace(message))
        cut == FirstWords(words, cfg.subjectWordCount)
        subject == IF Len(cut) < Len(message) THEN cut \o <<".", ".", ".">> ELSE cut
    IN  <<AttentionMarker, " ">> \o subject

generateSubject(cfg, message, result) ==
    LET words == Trim(CollapseWhiteSpace(message))
        cut == FirstWords(words, cfg.subjectWordCount)
        subject == IF Len(cut) < Len(message) THEN cut \o <<".", ".", ".">> ELSE cut
    IN  IF result.present /\ isNotClean(result)
        THEN <<AttentionMarker, " ">> \o subject
        ELSE subject

Line(text, arg) == [text |-> text, arg |-> arg]

\* formatEmailBody that leaves the classification out of the body.
formatEmailBodyNoSection(data, result) ==
    <<Line("New Contact Form Submission", Undefined),
      Line("", Undefined),
      Line("Name: ", Str(data.name)),
      Line("Email: ", Str(data.email)),
      Line("Phone: ", Str(data.phone)),
      Line("", Undefined),
      Line("Message:", Undefined),
      Line("", Str(data.message)),
      Line("", Undefined),
      Line("---", Undefined),
      Line("Submitted: ", Undefined)>>

\* The timestamp of the last line is the time of the call; it is left out.
formatEmailBody(data, result) ==
    <<Line("New Contact Form Submission", Undefined),
      Line("", Undefined),
      Line("Name: ", Str(data.name)),
      Line("Email: ", Str(data.email)),
      Line("Phone: ", Str(data.phone)),
      Line("", Undefined)>>
    \o (IF result.present
        THEN <<Line("Spam Detection:", Undefined),
               Line("  Classification: ", Str(<<result.classification>>)),
               Line("  Confidence: %", result.confidence),
               Line("  Reason: ", Str(<<result.reason.kind, result.reason.text>>))>>
             \o (IF result.failedOpen
                 THEN <<Line("  Bedrock classification failed - failed open", Undefined)>>
                 ELSE <<>>)
             \o <<Line("", Undefined)>>
        ELSE <<>>)
    \o <<Line("Message:", Undefined),
         Line("", Str(data.message)),
         Line("", Undefined),
         Line("---", Undefined),
         Line("Submitted: ", Undefined)>>

SendEmailCommand(cfg, data, result) ==
    [ToAddresses |-> "toAddress",
     Source |-> "fromAddress",
     ReplyToAddresses |-> data.name \o <<" ", "<">> \o data.email \o <<">">>,
     Subject |-> generateSubject(cfg, data.message, result),
     Body |-> formatEmailBody(data, result)]

(***************************************************************************)
(* classifySubmission                                                      *)
(*                                                                         *)
(* The text of the model is a sequence of tokens [tok, val]: a code fence, *)
(* a word, a line break, a JSON value or text that is no JSON.  A JSON     *)
(* value is an object with the keys it carries, null or a string.          *)
(***************************************************************************)
NoJson ==
    [kind |-> "none", classification |-> "", confidence |-> Undefined,
     reason |-> "", failedOpen |-> FALSE]

JsonNull == [NoJson EXCEPT !.kind = "null"]

JsonString == [NoJson EXCEPT !.kind = "string"]

JsonObject(classification, confidence, reason, failedOpen) ==
    [kind |-> "object", classification |-> classification,
     confidence |-> confidence, reason |-> reason, failedOpen |-> failedOpen]

\* three backticks
Fence == [tok |-> "fence", val |-> NoJson]

Word(w) == [tok |-> w, val |-> NoJson]

NewLine == [tok |-> "\n", val |-> NoJson]

Value(j) == [tok |-> "value", val |-> j]

Junk == [tok |-> "junk", val |-> NoJson]

IsSpace(token) == token.tok \in WhiteSpace

RECURSIVE TrimTokensStart(_)
TrimTokensStart(s) ==
    IF s # <<>> /\ IsSpace(Head(s)) THEN TrimTokensStart(Tail(s)) ELSE s

RECURSIVE TrimTokensEnd(_)
TrimTokensEnd(s) ==
    IF s # <<>> /\ IsSpace(s[Len(s)])
    THEN TrimTokensEnd(SubSeq(s, 1, Len(s) - 1))
    ELSE s

TrimTokens(s) == TrimTokensEnd(TrimTokensStart(s))

\* RemoveOpeningFence that knows the fence with the word json only.
RemoveOpeningFenceJsonOnly(s) ==
    IF Len(s) >= 3 /\ s[1] = Fence /\ s[2] = Word("json") /\ s[3] = NewLine
    THEN SubSeq(s, 4, Len(s))
    ELSE s

\* .replace(/^FENCE(?:json)?\n/, ''), FENCE standing for the three backticks
RemoveOpeningFence(s) ==
    IF Len(s) >= 2 /\ s[1] = Fence /\ s[2] = NewLine
    THEN SubSeq(s, 3, Len(s))
    ELSE IF Len(s) >= 3 /\ s[1] = Fence /\ s[2] = Word("json") /\ s[3] = NewLine
    THEN SubSeq(s, 4, Len(s))
    ELSE s

\* .replace(/\nFENCE$/, '')
RemoveClosingFence(s) ==
    IF Len(s) >= 2 /\ s[Len(s) - 1] = NewLine /\ s[Len(s)] = Fence
    THEN SubSeq(s, 1, Len(s) - 2)
    ELSE s

\* JSON.parse: one value, white space around it allowed
JsonParse(s) ==
    LET t == TrimTokens(s)
    IN  IF Len(t) = 1 /\ t[1].tok = "value"
        THEN [threw |-> FALSE, val |-> t[1].val]
        ELSE [threw |-> TRUE, val |-> NoJson]

\* FailOpen failing closed.
FailClosed(message) ==
    [present |-> TRUE, classification |-> "SPAM", confidence |-> Num(100),
     reason |-> [kind |-> "Classification error: ", text |-> message],
     failedOpen |-> TRUE]

FailOpen(message) ==
    [present |-> TRUE, classification |-> "LEGITIMATE", confidence |-> Num(0),
     reason |-> [kind |-> "Classification error: ", text |-> message],
     failedOpen |-> TRUE]

\* A key the JSON object does not carry reads as undefined.
AbsentLabel == "undefined"

\* ResultOf handing on every key of the parsed object.
ResultSpread(val) ==
    [present |-> TRUE,
     classification |-> IF val.kind = "object" THEN val.classification ELSE "undefined",
     confidence |-> val.confidence,
     reason |-> [kind |-> "", text |-> val.reason],
     failedOpen |-> val.failedOpen]

\* The object the function returns from the parsed JSON: the three keys,
\* read from an object or from a primitive (where they are undefined).
ResultOf(val) ==
    IF val.kind = "object"
    THEN [present |-> TRUE,
          classification |-> val.classification,
          confidence |-> val.confidence,
          reason |-> [kind |-> "", text |-> val.reason],
          failedOpen |-> FALSE]
    ELSE [present |-> TRUE, classification |-> AbsentLabel,
          confidence |-> Undefined,
          reason |-> [kind |-> "", text |-> AbsentLabel],
          failedOpen |-> FALSE]

\* What the function returns for the behaviour of the injected client:
\* send rejects, or resolves with a body that decodes or not to the text.
classifySubmission(client) ==
    IF client.behaviour = "rejects" THEN FailOpen(client.error)
    ELSE IF ~client.decodable THEN FailOpen("Unexpected token")
    ELSE LET text == TrimTokens(client.text)
             classificationText ==
                 IF text # <<>> /\ text[1] = Fence
                 THEN RemoveClosingFence(RemoveOpeningFence(text))
                 ELSE text
             parsed == JsonParse(classificationText)
         IN  IF parsed.threw THEN FailOpen("Unexpected token")
             ELSE IF parsed.val.kind = "null"
             THEN FailOpen("Cannot read properties of null")
             ELSE ResultOf(parsed.val)

\* ShouldBlock with > for >=
ShouldBlockStrict(cfg, result) ==
    /\ result.classification \in {"SPAM", "GIBBERISH"}
    /\ IsNumeric(result.confidence)
    /\ NumberOf(result.confidence) > cfg.spamConfidenceThreshold

\* Block if high-confidence spam or gibberish
ShouldBlock(cfg, result) ==
    /\ result.classification \in {"SPAM", "GIBBERISH"}
    /\ JsGreaterEq(result.confidence, cfg.spamConfidenceThreshold)

(***************************************************************************)
(* logBlockedSubmission                                                    *)
(***************************************************************************)
TtlSeconds == 90 * 24 * 60 * 60

\* event.requestContext?.http?.sourceIp ||
\* event.requestContext?.identity?.sourceIp || 'unknown'
IpAddress(ev) ==
    IF ev.requestContext.http.sourceIp # "" THEN ev.requestContext.http.sourceIp
    ELSE IF ev.requestContext.identity.sourceIp # ""
    THEN ev.requestContext.identity.sourceIp
    ELSE "unknown"

\* BlockedItem whose ttl adds the ninety days to the milliseconds.
BlockedItemTtlInMilliseconds(id, timestamp, data, result, ev) ==
    [submissionId |-> id,
     timestamp |-> timestamp,
     ttl |-> timestamp + TtlSeconds,
     name |-> data.name, email |-> data.email,
     phone |-> data.phone, message |-> data.message,
     classification |-> result.classification,
     confidence |-> result.confidence,
     reason |-> result.reason,
     ipAddress |-> IpAddress(ev)]

\* The item of the PutCommand.  blockedAt, the same instant as an ISO string,
\* is left out.  randomUUID is a counter: every id is a new one.
BlockedItem(id, timestamp, data, result, ev) ==
    [submissionId |-> id,
     timestamp |-> timestamp,
     ttl |-> (timestamp \div 1000) + TtlSeconds,
     name |-> data.name, email |-> data.email,
     phone |-> data.phone, message |-> data.message,
     classification |-> result.classification,
     confidence |-> result.confidence,
     reason |-> result.reason,
     ipAddress |-> IpAddress(ev)]

NullId == 0

\* randomUUID that hands out one id again and again.
randomUUIDRepeats(count) == 1

\* randomUUID() as a counter: count ids have been handed out, the next one
\* is new.
randomUUID(count) == count + 1

\* The PutCommand on a table with the partition key submissionId and the
\* sort key timestamp: an item of the same key is replaced.
PutItem(items, item) ==
    {x \in items : <<x.submissionId, x.timestamp>> # <<item.submissionId, item.timestamp>>}
        \cup {item}

\* logBlockedSubmission without its catch block.
logBlockedSubmissionRethrows(behaviour, id) ==
    [threw |-> behaviour = "rejects", submissionId |-> id]

\* What the function hands back once dynamoClient.send has settled: the
\* catch block turns a rejection into null.
logBlockedSubmission(behaviour, id) ==
    IF behaviour = "rejects"
    THEN [threw |-> FALSE, submissionId |-> NullId]
    ELSE [threw |-> FALSE, submissionId |-> id]

(***************************************************************************)
(* Inputs of the handler                                                   *)
(***************************************************************************)
Invocations == {1, 2}

NoRequestContext ==
    [http |-> [method |-> "", sourceIp |-> ""], identity |-> [sourceIp |-> ""]]

\* defined is FALSE for an event that is null or undefined.
PostEvent(body) ==
    [defined |-> TRUE, httpMethod |-> "POST", requestContext |-> NoRequestContext,
     headers |-> [lower |-> "", upper |-> ""],
     body |-> body, isBase64Encoded |-> FALSE]

ValidFields ==
    [email |-> Str(<<"j", "@", "e", ".", "c">>),
     name |-> Str(<<" ", "J", "o">>),
     phone |-> Str(<<"5", "-", "1">>),
     message |-> Str(<<"H", "i", " ", " ", "W", "!", "\n">>)]

InvalidNameFields == [ValidFields EXCEPT !.name = Str(<<"J", "1">>)]

FormFields ==
    [email |-> Str(<<"j", "%40", "e", ".", "c">>),
     name |-> Str(<<"J", "o", "+">>),
     phone |-> Str(<<"5", "-", "1">>),
     message |-> Str(<<"H", "i", "+", "%20", "W", "!">>)]

\* ValidFields as a form sends them
ValidFormFields ==
    [email |-> Str(<<"j", "%40", "e", ".", "c">>),
     name |-> Str(<<"+", "J", "o">>),
     phone |-> Str(<<"5", "-", "1">>),
     message |-> Str(<<"H", "i", "+", "%20", "W", "!", "%0A">>)]

FormEvent(body) ==
    [PostEvent(body) EXCEPT !.headers.upper = "application/x-www-form-urlencoded"]

Events ==
    { [PostEvent(AbsentBody) EXCEPT !.httpMethod = "OPTIONS"],
      [PostEvent(JsonBody(Object(ValidFields), FALSE))
          EXCEPT !.httpMethod = "", !.requestContext.http.method = "OPTIONS"],
      [PostEvent(JunkBody) EXCEPT !.httpMethod = "OPTIONS"],
      [PostEvent(AbsentBody) EXCEPT !.requestContext.http.method = "OPTIONS",
                                    !.isBase64Encoded = TRUE],
      PostEvent(AbsentBody),
      [PostEvent(AbsentBody) EXCEPT !.isBase64Encoded = TRUE],
      PostEvent(JsonBody([kind |-> "null", fields |-> NoFields], FALSE)),
      PostEvent(JsonBody([kind |-> "primitive", fields |-> NoFields], FALSE)),
      PostEvent(JunkBody),
      PostEvent(FormBody(FormFields, FALSE)),
      PostEvent(JsonBody(Object(InvalidNameFields), FALSE)),
      PostEvent(JsonBody(Object([ValidFields EXCEPT !.phone = Undefined]), FALSE)),
      [PostEvent(JsonBody(Object(ValidFields), FALSE))
          EXCEPT !.requestContext.http.sourceIp = "192.168.1.100"],
      [FormEvent(FormBody(FormFields, TRUE)) EXCEPT !.isBase64Encoded = TRUE,
          !.requestContext.identity.sourceIp = "10.0.0.1"],
      PostEvent(JsonBody(Object(ValidFields), FALSE)),
      [PostEvent(JsonBody(Object(ValidFields), TRUE)) EXCEPT !.isBase64Encoded = TRUE,
          !.requestContext.http.sourceIp = "192.168.1.100",
          !.requestContext.identity.sourceIp = "10.0.0.1"],
      [PostEvent(FormBody(ValidFormFields, FALSE))
          EXCEPT !.headers.lower = "application/x-www-form-urlencoded; charset=UTF-8"] }

\* An invocation without event
NoEvent == [PostEvent(AbsentBody) EXCEPT !.defined = FALSE, !.httpMethod = ""]

\* The context argument: null, undefined, or an object with or without
\* awsRequestId and requestId ("" is an absent key).
Context(t, awsRequestId, reqId) ==
    [t |-> t, awsRequestId |-> awsRequestId, requestId |-> reqId]

LambdaContext == Context("object", "aws-req-id-123", "")

Contexts ==
    {LambdaContext, Context("null", "", ""), Context("undefined", "", ""),
     Context("object", "", "test-request-id"), Context("object", "", "")}

\* What may be passed for a client: an object (a test's mock), nothing, or
\* the callback function the Lambda runtime passes third.
AllInjected == [ses |-> "object", bedrock |-> "object", dynamo |-> "object"]

ClientArgs ==
    {AllInjected,
     [ses |-> "undefined", bedrock |-> "undefined", dynamo |-> "undefined"],
     [ses |-> "function", bedrock |-> "undefined", dynamo |-> "undefined"]}

\* The behaviours of a SES or DynamoDB client, injected or created.
SendBehaviours == {"resolves", "rejects"}

ModelText(tokens) ==
    [behaviour |-> "resolves", decodable |-> TRUE, text |-> tokens, error |-> ""]

Classified(classification, confidence) ==
    ModelText(<<Value(JsonObject(classification, confidence, "r", FALSE))>>)

BedrockClients ==
    { [behaviour |-> "rejects", decodable |-> FALSE, text |-> <<>>,
       error |-> "Bedrock unavailable"],
      [behaviour |-> "resolves", decodable |-> FALSE, text |-> <<>>, error |-> ""],
      ModelText(<<Junk>>),
      ModelText(<<Value(JsonNull)>>),
      Classified("SPAM", Num(95)),
      Classified("SPAM", Num(80)),
      Classified("SPAM", Num(50)),
      Classified("SPAM", Undefined),
      ModelText(<<Fence, Word("json"), NewLine,
                  Value(JsonObject("GIBBERISH", Num(95), "r", FALSE)),
                  NewLine, Fence>>),
      ModelText(<<Value(JsonObject("SPAM", Num(95), "r", TRUE))>>),
      Classified("SALES", Num(95)),
      Classified("LEGITIMATE", Num(95)),
      Classified("LEGITIMATE", Num(0)),
      Classified("LEGITIMATE", Num(90)),
      Classified("SALES", Num(50)),
      Classified("GIBBERISH", Num(50)),
      Classified("GIBBERISH", Num(95)),
      ModelText(<<Fence, NewLine,
                  Value(JsonObject("GIBBERISH", Num(95), "r", FALSE)),
                  NewLine, Fence>>) }

ClientSets ==
    [ses : SendBehaviours, bedrock : BedrockClients, dynamo : SendBehaviours]

\* Date.now() of a blocked submission, in milliseconds
Timestamps == {1999}

(***************************************************************************)
(* The handler                                                             *)
(***************************************************************************)
NoContactData == [email |-> <<>>, name |-> <<>>, phone |-> <<>>, message |-> <<>>]

\* The message of no error.
NoError == ""

\* validateContactForm has not been called.
NotValidated == [ok |-> FALSE, field |-> "", message |-> NoMessage, value |-> <<>>]

\* No invocation of the handler has started.
HandlerIdle ==
    /\ pc = [i \in Invocations |-> "idle"]
    /\ event = [i \in Invocations |-> PostEvent(AbsentBody)]
    /\ clients = [i \in Invocations |->
                    CHOOSE c \in ClientSets : TRUE]
    /\ clientArgs = [i \in Invocations |-> AllInjected]
    /\ requestId = [i \in Invocations |-> ""]
    /\ contactData = [i \in Invocations |-> NoContactData]
    /\ classificationResult = [i \in Invocations |-> NullResult]
    /\ submissionId = [i \in Invocations |-> NullId]
    /\ bedrockCalls = [i \in Invocations |-> <<>>]
    /\ dynamoCalls = [i \in Invocations |-> <<>>]
    /\ sesCalls = [i \in Invocations |-> <<>>]
    /\ response = [i \in Invocations |-> NoResponse]
    /\ caughtError = [i \in Invocations |-> NoError]
    /\ table = {}
    /\ uuidCount = 0

Init ==
    /\ config \in ConfigSet
    /\ submission = NoFields
    /\ validation = NotValidated
    /\ HandlerIdle

\* The messages of the errors sesClient.send rejects with
SesErrors == {"SES Error", "Throttling"}

\* data.email where data is undefined or null
DataTypeError == "Cannot read properties of undefined (reading 'email')"

\* HandlerCatch that hands the message of the error to the caller.
HandlerCatchLeaks(cfg, error) ==
    createResponse(cfg, 500, [error |-> [field |-> "", text |-> error, n |-> 0]])

\* The response of the catch block of the handler's outer try.
HandlerCatch(cfg, error) == createResponse(cfg, 500, SendFailureBody)

\* IsPreflight that reads the method of the REST API event only.
IsPreflightLegacy(ev) == ev.httpMethod = "OPTIONS"

IsPreflight(ev) ==
    ev.httpMethod = "OPTIONS" \/ ev.requestContext.http.method = "OPTIONS"

Return(i, resp) ==
    /\ response' = [response EXCEPT ![i] = resp]
    /\ pc' = [pc EXCEPT ![i] = "done"]
    /\ UNCHANGED caughtError

\* The catch block of the handler's outer try: it logs the error and
\* returns.
Catch(i, error) ==
    /\ caughtError' = [caughtError EXCEPT ![i] = error]
    /\ response' = [response EXCEPT ![i] = HandlerCatch(config, error)]
    /\ pc' = [pc EXCEPT ![i] = "done"]

\* sendEmail up to the await of sesClient.send
SendEmail(i, data, result) ==
    /\ sesCalls' = [sesCalls EXCEPT ![i] = Append(@, SendEmailCommand(config, data, result))]
    /\ pc' = [pc EXCEPT ![i] = "awaitSes"]
    /\ UNCHANGED <<response, caughtError>>

\* Classify without its await: the email is sent while the model is asked.
ClassifyNotAwaited(i, data) ==
    /\ bedrockCalls' = [bedrockCalls EXCEPT ![i] = Append(@, data)]
    /\ SendEmail(i, data, NullResult)

\* classifySubmission up to the await of bedrockClient.send; the prompt
\* carries the fields of the validated submission.
Classify(i, data) ==
    /\ bedrockCalls' = [bedrockCalls EXCEPT ![i] = Append(@, data)]
    /\ pc' = [pc EXCEPT ![i] = "awaitBedrock"]
    /\ UNCHANGED <<response, caughtError, sesCalls>>

\* SpamDetection that does not read the setting.
SpamDetectionAlways(cfg) == TRUE

\* if (CONFIG.spamDetectionEnabled)
SpamDetection(cfg) == cfg.spamDetectionEnabled

\* RequestId that reads the context without the optional chaining.
RequestIdUnguarded(ctx) ==
    IF ctx.t # "object" THEN [threw |-> TRUE, id |-> ""]
    ELSE IF ctx.awsRequestId # "" THEN [threw |-> FALSE, id |-> ctx.awsRequestId]
    ELSE IF ctx.requestId # "" THEN [threw |-> FALSE, id |-> ctx.requestId]
    ELSE [threw |-> FALSE, id |-> "local"]

\* context?.awsRequestId || context?.requestId || 'local', evaluated before
\* the try: what it throws leaves the handler.
RequestId(ctx) ==
    IF ctx.t # "object" THEN [threw |-> FALSE, id |-> "local"]
    ELSE IF ctx.awsRequestId # "" THEN [threw |-> FALSE, id |-> ctx.awsRequestId]
    ELSE IF ctx.requestId # "" THEN [threw |-> FALSE, id |-> ctx.requestId]
    ELSE [threw |-> FALSE, id |-> "local"]

\* event.httpMethod where event is undefined or null
EventTypeError == "Cannot read properties of undefined (reading 'httpMethod')"

\* The handler from its entry to its first await or to its return.  cl is
\* how the instances behave: the clients passed that are objects, and new
\* clients for the others.
Invoke(i, ev, ctx, args, cl) ==
    /\ pc[i] = "idle"
    /\ event' = [event EXCEPT ![i] = ev]
    /\ clients' = [clients EXCEPT ![i] = cl]
    /\ clientArgs' = [clientArgs EXCEPT ![i] = args]
    /\ requestId' = [requestId EXCEPT ![i] = RequestId(ctx).id]
    /\ UNCHANGED <<config, classificationResult, submissionId, dynamoCalls, table,
                   uuidCount, submission, validation>>
    /\ IF RequestId(ctx).threw
       THEN /\ Return(i, Escaped)
            /\ UNCHANGED <<contactData, bedrockCalls, sesCalls>>
       ELSE IF ~ev.defined
       THEN /\ Catch(i, EventTypeError)
            /\ UNCHANGED <<contactData, bedrockCalls, sesCalls>>
       ELSE IF IsPreflight(ev)
       THEN /\ Return(i, createResponse(config, 200, PreflightBody))
            /\ UNCHANGED <<contactData, bedrockCalls, sesCalls>>
       ELSE LET parsed == ParseBody(ev)
            IN  IF parsed.threw
                THEN /\ Return(i, createResponse(config, 400, InvalidFormatBody))
                     /\ UNCHANGED <<contactData, bedrockCalls, sesCalls>>
                ELSE IF parsed.data.kind \in {"undefined", "null"}
                THEN \* data.email throws a TypeError, no ValidationError
                     /\ Catch(i, DataTypeError)
                     /\ UNCHANGED <<contactData, bedrockCalls, sesCalls>>
                ELSE LET v == validateContactForm(config, parsed.data.fields)
                     IN  IF ~v.ok
                         THEN /\ Return(i, createResponse(config, 400, ValidationBody(v)))
                              /\ UNCHANGED <<contactData, bedrockCalls, sesCalls>>
                         ELSE /\ contactData' = [contactData EXCEPT ![i] = v.value]
                              /\ IF SpamDetection(config)
                                 THEN Classify(i, v.value)
                                 ELSE /\ SendEmail(i, v.value, NullResult)
                                      /\ UNCHANGED bedrockCalls

\* From the settling of bedrockClient.send to the next await.
BedrockReturn(i) ==
    /\ pc[i] = "awaitBedrock"
    /\ \E result \in {classifySubmission(clients[i].bedrock)} :
           /\ classificationResult' = [classificationResult EXCEPT ![i] = result]
           /\ IF ShouldBlock(config, result)
              THEN \E timestamp \in Timestamps :
                     /\ uuidCount' = randomUUID(uuidCount)
                     /\ dynamoCalls' = [dynamoCalls EXCEPT ![i] =
                            Append(@, BlockedItem(randomUUID(uuidCount), timestamp,
                                                  contactData[i], result, event[i]))]
                     /\ pc' = [pc EXCEPT ![i] = "awaitDynamo"]
                     /\ UNCHANGED <<response, caughtError, sesCalls>>
              ELSE /\ SendEmail(i, contactData[i], result)
                   /\ UNCHANGED <<uuidCount, dynamoCalls>>
    /\ UNCHANGED <<config, event, clients, clientArgs, requestId, contactData,
                   submissionId, bedrockCalls, table, submission, validation>>

\* BlockedReturn without its return: the handler goes on to send the email.
BlockedFallThrough(i) == SendEmail(i, contactData[i], classificationResult[i])

\* BlockedReturn with a body of its own.
BlockedReturnOtherBody(i) ==
    /\ Return(i, createResponse(config, 200, [message |-> "Your message was blocked.",
                                             success |-> TRUE]))
    /\ UNCHANGED sesCalls

\* BlockedReturn with a status of its own.
BlockedReturnForbidden(i) ==
    /\ Return(i, createResponse(config, 403, SuccessBody))
    /\ UNCHANGED sesCalls

\* The handler once logBlockedSubmission has returned: it logs the block and
\* returns the success response.
BlockedReturn(i) ==
    /\ Return(i, createResponse(config, 200, SuccessBody))
    /\ UNCHANGED sesCalls

\* From the settling of dynamoClient.send to the return of the handler.
DynamoReturn(i) ==
    /\ pc[i] = "awaitDynamo"
    /\ LET item == dynamoCalls[i][Len(dynamoCalls[i])]
           logged == logBlockedSubmission(clients[i].dynamo, item.submissionId)
       IN  /\ table' = IF clients[i].dynamo = "resolves" THEN PutItem(table, item) ELSE table
           /\ submissionId' = [submissionId EXCEPT ![i] = logged.submissionId]
           /\ IF logged.threw
              THEN Catch(i, "DynamoDB error") /\ UNCHANGED sesCalls
              ELSE BlockedReturn(i)
    /\ UNCHANGED <<config, event, clients, clientArgs, requestId, contactData,
                   classificationResult, bedrockCalls, dynamoCalls, uuidCount,
                   submission, validation>>

\* SendEmailRejected that sends the command a second time before it gives
\* up.
SendEmailRetried(i, error) ==
    IF Len(sesCalls[i]) < 2
    THEN /\ sesCalls' = [sesCalls EXCEPT ![i] = Append(@, @[1])]
         /\ UNCHANGED <<pc, response, caughtError>>
    ELSE Catch(i, error) /\ UNCHANGED sesCalls

\* The rejection of sesClient.send leaves sendEmail and reaches the catch
\* block of the handler.
SendEmailRejected(i, error) == Catch(i, error) /\ UNCHANGED sesCalls

\* From the settling of sesClient.send to the return of the handler.
SesReturn(i) ==
    /\ pc[i] = "awaitSes"
    /\ IF clients[i].ses = "rejects"
       THEN \E error \in SesErrors : SendEmailRejected(i, error)
       ELSE /\ Return(i, createResponse(config, 200, SuccessBody))
            /\ UNCHANGED sesCalls
    /\ UNCHANGED <<config, event, clients, clientArgs, requestId, contactData,
                   classificationResult, submissionId, bedrockCalls, dynamoCalls,
                   table, uuidCount, submission, validation>>

\* One invocation at a time.
Alone == {1}

Next ==
    \E i \in Alone :
        \/ /\ pc[i] = "idle"
           /\ \E ev \in Events, cl \in ClientSets :
                 Invoke(i, ev, LambdaContext, AllInjected, cl)
        \/ BedrockReturn(i)
        \/ DynamoReturn(i)
        \/ SesReturn(i)

Spec == Init /\ [][Next]_vars

\* Two invocations side by side that are given the same event and the same
\* SES and DynamoDB clients, and any two Bedrock clients.
Started(i) == {j \in Invocations \ {i} : pc[j] # "idle"}

PairEvents(i) == IF Started(i) = {} THEN Events ELSE {event[j] : j \in Started(i)}

PairClients(i) ==
    IF Started(i) = {} THEN ClientSets
    ELSE [ses : {clients[j].ses : j \in Started(i)},
          bedrock : BedrockClients,
          dynamo : {clients[j].dynamo : j \in Started(i)}]

NextPair ==
    \E i \in Invocations :
        \/ /\ pc[i] = "idle"
           /\ \E ev \in PairEvents(i), cl \in PairClients(i) :
                 Invoke(i, ev, LambdaContext, AllInjected, cl)
        \/ BedrockReturn(i)
        \/ DynamoReturn(i)
        \/ SesReturn(i)

SpecPair == Init /\ [][NextPair]_vars

(***************************************************************************)
(* Two invocations at once, each with an event and clients of its own      *)
(***************************************************************************)
ConcurrentEvents ==
    { [PostEvent(JsonBody(Object(ValidFields), FALSE))
          EXCEPT !.requestContext.http.sourceIp = "192.168.1.100"],
      [FormEvent(FormBody(FormFields, TRUE)) EXCEPT !.isBase64Encoded = TRUE,
          !.requestContext.identity.sourceIp = "10.0.0.1"],
      PostEvent(JsonBody(Object(InvalidNameFields), FALSE)) }

ConcurrentClients ==
    [ses : SendBehaviours,
     bedrock : {Classified("SPAM", Num(95)), Classified("GIBBERISH", Num(95)),
                Classified("LEGITIMATE", Num(95))},
     dynamo : SendBehaviours]

NextConcurrent ==
    \E i \in Invocations :
        \/ /\ pc[i] = "idle"
           /\ \E ev \in ConcurrentEvents, cl \in ConcurrentClients :
                 Invoke(i, ev, LambdaContext, AllInjected, cl)
        \/ BedrockReturn(i)
        \/ DynamoReturn(i)
        \/ SesReturn(i)

SpecConcurrent == Init /\ [][NextConcurrent]_vars

(***************************************************************************)
(* One submission sent twice, in any two ways, to the same clients         *)
(***************************************************************************)
\* ValidFields as JSON, as a form, and each of them in base64; then a form
\* without its header, base64 that is not flagged, and JSON under the
\* header of a form.
TransportEvents ==
    { PostEvent(JsonBody(Object(ValidFields), FALSE)),
      [PostEvent(JsonBody(Object(ValidFields), TRUE))
          EXCEPT !.isBase64Encoded = TRUE, !.headers.lower = "application/json"],
      [PostEvent(FormBody(ValidFormFields, FALSE))
          EXCEPT !.headers.lower = "application/x-www-form-urlencoded; charset=UTF-8"],
      [FormEvent(FormBody(ValidFormFields, TRUE)) EXCEPT !.isBase64Encoded = TRUE],
      PostEvent(FormBody(ValidFormFields, FALSE)),
      PostEvent(JsonBody(Object(ValidFields), TRUE)),
      FormEvent(JsonBody(Object(ValidFields), FALSE)) }

TransportClients(i) ==
    IF Started(i) = {}
    THEN [ses : SendBehaviours,
          bedrock : {Classified("SPAM", Num(95)), Classified("SALES", Num(95)),
                     Classified("LEGITIMATE", Num(95))},
          dynamo : SendBehaviours]
    ELSE {clients[j] : j \in Started(i)}

NextTransports ==
    \E i \in Invocations :
        \/ /\ pc[i] = "idle"
           /\ \E ev \in TransportEvents, cl \in TransportClients(i) :
                 Invoke(i, ev, LambdaContext, AllInjected, cl)
        \/ BedrockReturn(i)
        \/ DynamoReturn(i)
        \/ SesReturn(i)

SpecTransports == Init /\ [][NextTransports]_vars

(***************************************************************************)
(* The handler before spam detection, next to the handler of today with    *)
(* spam detection disabled: invocation 1 runs today's handler, invocation  *)
(* 2 the earlier one, on the same event and the same SES client.           *)
(***************************************************************************)
\* generateSubject(message) of the earlier version
generateSubjectV1(cfg, message) ==
    LET words == Trim(CollapseWhiteSpace(message))
        subject == FirstWords(words, cfg.subjectWordCount)
    IN  IF Len(subject) < Len(message) THEN subject \o <<".", ".", ".">> ELSE subject

\* formatEmailBody(contactData) of the earlier version, its timestamp left
\* out
formatEmailBodyV1(data) ==
    <<Line("New Contact Form Submission", Undefined),
      Line("", Undefined),
      Line("Name: ", Str(data.name)),
      Line("Email: ", Str(data.email)),
      Line("Phone: ", Str(data.phone)),
      Line("", Undefined),
      Line("Message:", Undefined),
      Line("", Str(data.message)),
      Line("", Undefined),
      Line("---", Undefined),
      Line("Submitted: ", Undefined)>>

SendEmailCommandV1(cfg, data) ==
    [ToAddresses |-> "toAddress",
     Source |-> "fromAddress",
     ReplyToAddresses |-> data.name \o <<" ", "<">> \o data.email \o <<">">>,
     Subject |-> generateSubjectV1(cfg, data.message),
     Body |-> formatEmailBodyV1(data)]

\* createResponse of the earlier version
createResponseV1(cfg, statusCode, body) ==
    [statusCode |-> statusCode,
     headers |-> [ContentType |-> "application/json",
                  AccessControlAllowOrigin |-> cfg.allowedOrigin,
                  AccessControlAllowHeaders |-> "Content-Type",
                  AccessControlAllowMethods |-> "POST, OPTIONS"],
     body |-> body]

ReturnV1(i, resp) ==
    /\ response' = [response EXCEPT ![i] = resp]
    /\ pc' = [pc EXCEPT ![i] = "done"]
    /\ UNCHANGED caughtError

CatchV1(i, error) ==
    /\ caughtError' = [caughtError EXCEPT ![i] = error]
    /\ response' = [response EXCEPT ![i] = createResponseV1(config, 500, SendFailureBody)]
    /\ pc' = [pc EXCEPT ![i] = "done"]

\* The earlier handler from its entry to the await of sesClient.send or to
\* its return.
InvokeV1(i, ev, ctx, args, cl) ==
    /\ pc[i] = "idle"
    /\ event' = [event EXCEPT ![i] = ev]
    /\ clients' = [clients EXCEPT ![i] = cl]
    /\ clientArgs' = [clientArgs EXCEPT ![i] = args]
    /\ requestId' = [requestId EXCEPT ![i] = RequestId(ctx).id]
    /\ UNCHANGED <<config, classificationResult, submissionId, bedrockCalls,
                   dynamoCalls, table, uuidCount, submission, validation>>
    /\ IF ~ev.defined
       THEN CatchV1(i, EventTypeError) /\ UNCHANGED <<contactData, sesCalls>>
       ELSE IF ev.httpMethod = "OPTIONS" \/ ev.requestContext.http.method = "OPTIONS"
       THEN /\ ReturnV1(i, createResponseV1(config, 200, PreflightBody))
            /\ UNCHANGED <<contactData, sesCalls>>
       ELSE LET parsed == ParseBody(ev)
            IN  IF parsed.threw
                THEN /\ ReturnV1(i, createResponseV1(config, 400, InvalidFormatBody))
                     /\ UNCHANGED <<contactData, sesCalls>>
                ELSE IF parsed.data.kind \in {"undefined", "null"}
                THEN CatchV1(i, DataTypeError) /\ UNCHANGED <<contactData, sesCalls>>
                ELSE LET v == validateContactForm(config, parsed.data.fields)
                     IN  IF ~v.ok
                         THEN /\ ReturnV1(i, createResponseV1(config, 400, ValidationBody(v)))
                              /\ UNCHANGED <<contactData, sesCalls>>
                         ELSE /\ contactData' = [contactData EXCEPT ![i] = v.value]
                              /\ sesCalls' = [sesCalls EXCEPT ![i] =
                                     Append(@, SendEmailCommandV1(config, v.value))]
                              /\ pc' = [pc EXCEPT ![i] = "awaitSes"]
                              /\ UNCHANGED <<response, caughtError>>

\* The earlier handler from the settling of sesClient.send to its return.
SesReturnV1(i) ==
    /\ pc[i] = "awaitSes"
    /\ IF clients[i].ses = "rejects"
       THEN \E error \in SesErrors : CatchV1(i, error)
       ELSE ReturnV1(i, createResponseV1(config, 200, SuccessBody))
    /\ UNCHANGED <<config, event, clients, clientArgs, requestId, contactData,
                   classificationResult, submissionId, bedrockCalls, dynamoCalls,
                   sesCalls, table, uuidCount, submission, validation>>

Current == 1

Earlier == 2

\* The configurations of ConfigSet with spam detection disabled
DisabledConfigs == {[c EXCEPT !.spamDetectionEnabled = FALSE] : c \in ConfigSet}

InitVersions ==
    /\ config \in DisabledConfigs
    /\ submission = NoFields
    /\ validation = NotValidated
    /\ HandlerIdle

VersionEvents(i) == IF Started(i) = {} THEN Events \cup {NoEvent} ELSE PairEvents(i)

VersionClients(i) ==
    [ses : IF Started(i) = {} THEN SendBehaviours ELSE {clients[j].ses : j \in Started(i)},
     bedrock : {Classified("SPAM", Num(95)), Classified("LEGITIMATE", Num(95))},
     dynamo : SendBehaviours]

NextVersions ==
    \/ /\ pc[Current] = "idle"
       /\ \E ev \in VersionEvents(Current), cl \in VersionClients(Current) :
             Invoke(Current, ev, LambdaContext, AllInjected, cl)
    \/ SesReturn(Current)
    \/ /\ pc[Earlier] = "idle"
       /\ \E ev \in VersionEvents(Earlier), cl \in VersionClients(Earlier) :
             InvokeV1(Earlier, ev, LambdaContext, AllInjected, cl)
    \/ SesReturnV1(Earlier)

SpecVersions == InitVersions /\ [][NextVersions]_vars

\* Where an invocation stands: before its start, at the await of a call to
\* a client, or after its return.
Positions == {"idle", "awaitBedrock", "awaitDynamo", "awaitSes", "done"}

\* The call an invocation awaits settles: the invocation leaves the await.
\* Among the steps of the handler these are the steps BedrockReturn,
\* DynamoReturn and SesReturn, which are enabled at every await.
CallSettles(i) ==
    /\ pc[i] \in {"awaitBedrock", "awaitDynamo", "awaitSes"}
    /\ pc' \in [Invocations -> Positions]
    /\ pc'[i] # pc[i]

\* One invocation with any event or none, any context and any clients, in
\* which every call to a client settles.
NextArguments ==
    \E i \in Alone :
        \/ /\ pc[i] = "idle"
           /\ \E ev \in Events \cup {NoEvent}, ctx \in Contexts, args \in ClientArgs,
                 cl \in ClientSets : Invoke(i, ev, ctx, args, cl)
        \/ BedrockReturn(i)
        \/ DynamoReturn(i)
        \/ SesReturn(i)

SpecArguments ==
    /\ Init
    /\ [][NextArguments]_vars
    /\ \A i \in Alone : WF_pc(CallSettles(i))

(***************************************************************************)
(* validateContactForm on its own: any submission, validated once          *)
(***************************************************************************)
Repeat(c, n) == [k \in 1..n |-> c]

\* A string of the field's kind with one character more than it may have.
TooLong(cfg, fieldName) ==
    CASE fieldName = "email" ->
            Repeat("j", MaxLength(cfg, fieldName) - 3) \o <<"@", "e", ".", "c">>
      [] fieldName = "name" -> Repeat("J", MaxLength(cfg, fieldName) + 1)
      [] fieldName = "phone" -> Repeat("5", MaxLength(cfg, fieldName) + 1)
      [] fieldName = "message" -> Repeat("H", MaxLength(cfg, fieldName) + 1)

\* A string the pattern of the field refuses: no @ in the email, a digit
\* in the name, a letter in the phone, a tab inside the message.
InvalidCharacters(fieldName) ==
    CASE fieldName = "email" -> <<"j", "-", "e">>
      [] fieldName = "name" -> <<"J", "1">>
      [] fieldName = "phone" -> <<"5", "-", "c">>
      [] fieldName = "message" -> <<"H", "\t", "W">>

\* A value of each kind the checks of validateField tell apart: no key,
\* null, a number, the empty string, white space only, a good value with
\* white space around it, a string the pattern refuses, and a string that
\* is too long.
FieldValues(cfg, fieldName) ==
    {Undefined, Null, Num(5), Str(<<>>), Str(<<" ", "\t">>),
     Str(<<" ">> \o ValidFields[fieldName].s \o <<"\n">>),
     Str(InvalidCharacters(fieldName)),
     Str(TooLong(cfg, fieldName))}

Submissions(cfg) ==
    [email : FieldValues(cfg, "email"), name : FieldValues(cfg, "name"),
     phone : FieldValues(cfg, "phone"), message : FieldValues(cfg, "message")]

InitValidator ==
    /\ config \in ConfigSet
    /\ submission \in Submissions(config)
    /\ validation = NotValidated
    /\ HandlerIdle

HasValidated == validation.ok \/ validation.field # ""

Validate ==
    /\ ~HasValidated
    /\ validation' = validateContactForm(config, submission)
    /\ UNCHANGED <<config, pc, event, clients, clientArgs, requestId, contactData,
                   classificationResult, submissionId, bedrockCalls, dynamoCalls,
                   sesCalls, response, caughtError, table, uuidCount, submission>>

NextValidator == Validate

SpecValidator == InitValidator /\ [][NextValidator]_vars

(***************************************************************************)
(* What the claims speak of                                                *)
(***************************************************************************)
(***************************************************************************)
(* validateField at its boundaries: one field varies, the others are good  *)
(***************************************************************************)
\* A string of the field's kind with exactly as many characters as it may
\* have.
ExactlyMax(cfg, fieldName) ==
    CASE fieldName = "email" ->
            Repeat("j", MaxLength(cfg, fieldName) - 4) \o <<"@", "e", ".", "c">>
      [] fieldName = "name" -> Repeat("J", MaxLength(cfg, fieldName))
      [] fieldName = "phone" -> Repeat("5", MaxLength(cfg, fieldName))
      [] fieldName = "message" -> Repeat("H", MaxLength(cfg, fieldName))

\* A string that is one character too long and that the pattern of the
\* field refuses as well: no @, digits, letters, currency signs.
TooLongAndInvalid(cfg, fieldName) ==
    CASE fieldName = "email" -> Repeat("j", MaxLength(cfg, fieldName) + 1)
      [] fieldName = "name" -> Repeat("1", MaxLength(cfg, fieldName) + 1)
      [] fieldName = "phone" -> Repeat("c", MaxLength(cfg, fieldName) + 1)
      [] fieldName = "message" -> Repeat("$", MaxLength(cfg, fieldName) + 1)

\* The values of FieldValues, then a false boolean and the number 0, a
\* string of the greatest length with white space around it, and a string
\* that fails the length and the pattern at once.
BoundaryValues(cfg, fieldName) ==
    FieldValues(cfg, fieldName) \cup
    {[t |-> "boolean", s |-> <<>>, n |-> 0], Num(0),
     Str(<<" ">> \o ExactlyMax(cfg, fieldName) \o <<"\n">>),
     Str(TooLongAndInvalid(cfg, fieldName))}

FieldSubmissions(cfg) ==
    UNION {{[ValidFields EXCEPT ![f] = v] : v \in BoundaryValues(cfg, f)} :
             f \in {"email", "name", "phone", "message"}}

InitField ==
    /\ config \in ConfigSet
    /\ submission \in FieldSubmissions(config)
    /\ validation = NotValidated
    /\ HandlerIdle

NextField == Validate

SpecField == InitField /\ [][NextField]_vars

Done(i) == pc[i] = "done"

Validated(i) == contactData[i] # NoContactData

\* The classifier has been called and has answered.
Decided(i) ==
    /\ pc[i] \in {"awaitDynamo", "awaitSes", "done"}
    /\ Len(bedrockCalls[i]) = 1

NoCalls(i) ==
    /\ bedrockCalls[i] = <<>>
    /\ dynamoCalls[i] = <<>>
    /\ sesCalls[i] = <<>>

\* One write to the store was attempted and no email dispatched.
Blocked(i) == Len(dynamoCalls[i]) = 1 /\ Len(sesCalls[i]) = 0

\* One email was dispatched and no write to the store attempted.
Forwarded(i) == Len(sesCalls[i]) = 1 /\ Len(dynamoCalls[i]) = 0

\* The label is SPAM or GIBBERISH and the confidence reaches the threshold.
HighConfidenceSpam(i) ==
    LET r == classificationResult[i]
    IN  /\ r.present
        /\ r.classification \in {"SPAM", "GIBBERISH"}
        /\ r.confidence.t = "number"
        /\ r.confidence.n >= config.spamConfidenceThreshold

SuccessResponse ==
    [statusCode |-> 200,
     headers |-> [ContentType |-> "application/json",
                  AccessControlAllowOrigin |-> config.allowedOrigin,
                  AccessControlAllowHeaders |-> "Content-Type",
                  AccessControlAllowMethods |-> "POST, OPTIONS"],
     body |-> [message |-> "Thank you for contacting us! Your message has been sent.",
               success |-> TRUE]]

(***************************************************************************)
(* C1: with classification enabled, the handler blocks the submission if   *)
(* and only if the label the classifier gateway returned is SPAM or        *)
(* GIBBERISH and the confidence is at least the threshold (equal blocks);  *)
(* every other result is forwarded to the notifier.                        *)
(***************************************************************************)
C1_BlockIffHighConfidenceSpam ==
    \A i \in Invocations :
        config.spamDetectionEnabled /\ Decided(i) =>
            /\ Blocked(i) <=> HighConfidenceSpam(i)
            /\ ~HighConfidenceSpam(i) => Forwarded(i)

C1_Witness ==
    \E i \in Invocations :
        /\ Decided(i)
        /\ classificationResult[i].classification = "SPAM"
        /\ classificationResult[i].confidence = Num(config.spamConfidenceThreshold)
        /\ config.spamConfidenceThreshold = DefaultThreshold
        /\ Blocked(i)

(***************************************************************************)
(* C2: the recorder and the notifier never both run in an invocation: a    *)
(* blocked submission has exactly one store write attempt and no email, a  *)
(* forwarded one exactly one email and no store write.                     *)
(***************************************************************************)
C2_RecorderOrNotifier ==
    \A i \in Invocations :
        /\ ~(dynamoCalls[i] # <<>> /\ sesCalls[i] # <<>>)
        /\ Len(dynamoCalls[i]) <= 1 /\ Len(sesCalls[i]) <= 1
        /\ Done(i) /\ Validated(i) =>
            /\ HighConfidenceSpam(i) => Blocked(i)
            /\ ~HighConfidenceSpam(i) => Forwarded(i)

C2_Witness ==
    \E i \in Invocations : Done(i) /\ Validated(i) /\ Blocked(i) /\ table # {}

(***************************************************************************)
(* C3: the response of a blocked submission and the response of a sent one *)
(* are identical: status 200, the same headers and the success body.       *)
(***************************************************************************)
C3_BlockedEqualsSent ==
    \A i, j \in Invocations :
        /\ Done(i) /\ Blocked(i)
        /\ Done(j) /\ Forwarded(j) /\ clients[j].ses = "resolves"
        => /\ response[i] = response[j]
           /\ response[i] = SuccessResponse

C3_Witness ==
    \E i, j \in Invocations :
        /\ Done(i) /\ Blocked(i) /\ clients[i].dynamo = "resolves"
        /\ Done(j) /\ Forwarded(j) /\ clients[j].ses = "resolves"
        /\ response[j].statusCode = 200

(***************************************************************************)
(* C4, as claimed: two invocations with the same request and the same      *)
(* behaviour of the email and store capabilities, which differ only in     *)
(* what the classifier returns, get identical responses, also when the     *)
(* email capability fails.                                                 *)
(***************************************************************************)
SameButClassifier(i, j) ==
    /\ Done(i) /\ Done(j)
    /\ event[i] = event[j]
    /\ clients[i].ses = clients[j].ses
    /\ clients[i].dynamo = clients[j].dynamo

ClassificationFails(client) ==
    \/ client.behaviour = "rejects"
    \/ ~client.decodable
    \/ \A k \in 1..Len(client.text) : client.text[k].tok # "value"
    \/ client.text = <<Value(JsonNull)>>

C5_FailOpenForwards ==
    \A i \in Invocations :
        Decided(i) /\ ClassificationFails(clients[i].bedrock) =>
            /\ classificationResult[i].classification = "LEGITIMATE"
            /\ classificationResult[i].confidence = Num(0)
            /\ classificationResult[i].reason.kind = "Classification error: "
            /\ clients[i].bedrock.behaviour = "rejects" =>
                    classificationResult[i].reason.text = clients[i].bedrock.error
            /\ classificationResult[i].failedOpen
            /\ Forwarded(i)
            /\ Done(i) /\ clients[i].ses = "resolves" => response[i] = SuccessResponse

C5_Witness ==
    \E i \in Invocations :
        /\ Done(i)
        /\ clients[i].bedrock.behaviour = "rejects"
        /\ classificationResult[i].failedOpen
        /\ response[i].statusCode = 200

(***************************************************************************)
(* C6: a classification result with failedOpen set is LEGITIMATE with      *)
(* confidence 0, so it never blocks, whatever the threshold; the email it  *)
(* is forwarded with has the attention marker in its subject and the       *)
(* fail-open warning line in its body.                                     *)
(***************************************************************************)
HasLine(body, text) == \E k \in 1..Len(body) : body[k].text = text

C6_FailedOpenIsSafe ==
    \A i \in Invocations :
        classificationResult[i].failedOpen =>
            /\ classificationResult[i].classification = "LEGITIMATE"
            /\ classificationResult[i].confidence = Num(0)
            /\ dynamoCalls[i] = <<>>
            /\ Len(sesCalls[i]) = 1
            /\ sesCalls[i][1].Subject[1] = AttentionMarker
            /\ HasLine(sesCalls[i][1].Body, "  Bedrock classification failed - failed open")

C6_Witness ==
    \E i \in Invocations :
        /\ classificationResult[i].failedOpen
        /\ config.spamConfidenceThreshold = 0
        /\ Done(i)
        /\ sesCalls[i][1].Subject[1] = AttentionMarker

(***************************************************************************)
(* C7: when the store write fails during a block, the recorder returns     *)
(* null and the handler returns the success response, as it does when the  *)
(* write succeeds; no email is dispatched and no exception leaves the      *)
(* handler.                                                                *)
(***************************************************************************)
C7_StoreFailureAbsorbed ==
    \A i \in Invocations :
        Done(i) /\ dynamoCalls[i] # <<>> =>
            /\ response[i] = SuccessResponse
            /\ response[i] # Escaped
            /\ sesCalls[i] = <<>>
            /\ clients[i].dynamo = "rejects" =>
                /\ submissionId[i] = NullId
                /\ dynamoCalls[i][1] \notin table

C7_Witness ==
    \E i \in Invocations :
        /\ Done(i) /\ Blocked(i)
        /\ clients[i].dynamo = "rejects"
        /\ response[i].statusCode = 200

(***************************************************************************)
(* C8, as claimed: every response has status 200, 400 or 500: 200 only for *)
(* preflight, sent or blocked, 400 only for a decode or validation         *)
(* failure, and 500 only when the email dispatch was attempted and failed; *)
(* no request body gives a 500 without an attempted dispatch.              *)
(***************************************************************************)
C8_StatusCodes ==
    \A i \in Invocations :
        Done(i) =>
            /\ response[i].statusCode \in {200, 400, 500}
            /\ response[i].statusCode = 200 =>
                   IsPreflight(event[i]) \/ Forwarded(i) \/ Blocked(i)
            /\ response[i].statusCode = 400 => ~Validated(i) /\ NoCalls(i)
            /\ response[i].statusCode = 500 =>
                   Len(sesCalls[i]) = 1 /\ clients[i].ses = "rejects"

(***************************************************************************)
(* C9: when validation fails, the handler returns 400 with the error and   *)
(* the field in the body, and calls neither the classifier, the store nor  *)
(* the email capability.                                                   *)
(***************************************************************************)
ValidationOf(ev) ==
    LET parsed == ParseBody(ev)
    IN  IF ~IsPreflight(ev) /\ ~parsed.threw /\ parsed.data.kind \in {"object", "primitive"}
        THEN validateContactForm(config, parsed.data.fields)
        ELSE [ok |-> TRUE, field |-> "", message |-> NoMessage, value |-> NoContactData]

C9_ValidationFailure ==
    \A i \in Invocations :
        Done(i) /\ ~ValidationOf(event[i]).ok =>
            /\ response[i].statusCode = 400
            /\ DOMAIN response[i].body = {"error", "field"}
            /\ response[i].body.field = ValidationOf(event[i]).field
            /\ response[i].body.error = ValidationOf(event[i]).message
            /\ NoCalls(i)
            /\ table = {}

C9_Witness ==
    \E i \in Invocations :
        /\ Done(i)
        /\ event[i].body.val.fields = InvalidNameFields
        /\ response[i].statusCode = 400
        /\ response[i].body.field = "name"
        /\ response[i].body.error.text = "contains invalid characters"

(***************************************************************************)
(* C10: when the body cannot be parsed (as JSON or as form data, after the *)
(* base64 decoding), the handler returns 400 with the body                 *)
(* {error: "Invalid request format"} and calls no external capability.     *)
(***************************************************************************)
\* base64 decoding asked of no body; or a JSON parse of text that is no JSON
CannotBeParsed(ev) ==
    \/ ev.isBase64Encoded /\ ev.body.wire = "absent"
    \/ /\ ContentType(ev) \notin FormContentTypes
       /\ ev.body.wire # "absent"
       /\ ev.body.wire # "json" \/ ev.body.b64 # ev.isBase64Encoded

C10_DecodeFailure ==
    \A i \in Invocations :
        Done(i) /\ ~IsPreflight(event[i]) /\ CannotBeParsed(event[i]) =>
            /\ response[i].statusCode = 400
            /\ response[i].body =
                   [error |-> [field |-> "", text |-> "Invalid request format", n |-> 0]]
            /\ NoCalls(i)
            /\ table = {}

C10_Witness ==
    \E i \in Invocations :
        /\ Done(i)
        /\ event[i].body.wire = "junk"
        /\ response[i].statusCode = 400
        /\ NoCalls(i)

(***************************************************************************)
(* The validator alone                                                     *)
(***************************************************************************)
\* The places in email, name, phone, message of the fields that fail a check
Failing == {k \in 1..4 : ~validateField(config, submission[FieldOrder[k]], FieldOrder[k]).ok}

\* The places of the fields that are missing: no value, or no string
Missing ==
    {k \in 1..4 : LET v == submission[FieldOrder[k]]
                  IN  v.t # "string" \/ v.s = <<>>}

First(places) == CHOOSE k \in places : \A j \in places : k <= j

(***************************************************************************)
(* C11: the fields are validated in the order email, name, phone, message. *)
(* The submission is accepted when no field fails a check; otherwise the   *)
(* ValidationError is the one of the first field in that order that fails  *)
(* a check (missing, empty, too long or invalid characters), whatever the  *)
(* fields after it hold.                                                   *)
(***************************************************************************)
C11_FirstFailingField ==
    HasValidated =>
        IF Failing = {}
        THEN validation.ok
        ELSE LET f == FieldOrder[First(Failing)]
                 e == validateField(config, submission[f], f)
             IN  /\ ~validation.ok
                 /\ validation.field = f
                 /\ validation.message = e.message

\* Two fields fail and the first of them is reported.
C11_Witness ==
    /\ HasValidated
    /\ Cardinality(Failing) >= 2
    /\ validation.field = "name"
    /\ validation.message.text = "must be less than n characters"
    /\ submission.message = Undefined

(***************************************************************************)
(* C12 as it is written: every submission with a missing field fails on    *)
(* the first missing field in the order email, name, phone, message.       *)
(* Violated when a field before the first missing one is present and fails *)
(* another check: that field is named.                                     *)
(***************************************************************************)
C12_Original ==
    (HasValidated /\ Missing # {}) =>
        /\ ~validation.ok
        /\ validation.field = FieldOrder[First(Missing)]

(***************************************************************************)
(* C12: every submission with a missing field fails, and the error names   *)
(* one field that is the first missing field or a field before it; it is   *)
(* the first missing field, with the message "is required", whenever every *)
(* field before it passes its checks.                                      *)
(***************************************************************************)
C12_FirstMissingField ==
    (HasValidated /\ Missing # {}) =>
        LET m == First(Missing)
        IN  /\ ~validation.ok
            /\ \E k \in 1..m : validation.field = FieldOrder[k]
            /\ (\A k \in 1..(m - 1) : k \notin Failing) =>
                  /\ validation.field = FieldOrder[m]
                  /\ validation.message =
                        [field |-> FieldOrder[m], text |-> "is required", n |-> 0]

\* email and name are good, phone is missing and the message is invalid.
C12_Witness ==
    /\ HasValidated
    /\ submission.phone = Undefined
    /\ Failing = {3, 4}
    /\ validation.field = "phone"

(***************************************************************************)
(* C13: an invocation whose event has httpMethod OPTIONS, or               *)
(* requestContext.http.method OPTIONS, returns at once 200 with the body   *)
(* {message: "OK"} whatever the body of the event holds: nothing is        *)
(* validated and neither the classifier, the store nor the email           *)
(* capability is called.                                                   *)
(***************************************************************************)
MethodIsOptions(i) ==
    \/ event[i].httpMethod = "OPTIONS"
    \/ event[i].requestContext.http.method = "OPTIONS"

C13_PreflightShortCircuit ==
    \A i \in Invocations :
        (pc[i] # "idle" /\ MethodIsOptions(i)) =>
            /\ Done(i)
            /\ response[i].statusCode = 200
            /\ response[i].body = [message |-> "OK"]
            /\ ~Validated(i)
            /\ NoCalls(i)
            /\ classificationResult[i] = NullResult
            /\ table = {}

\* A preflight told by requestContext.http.method alone, with a body that
\* would pass validation.
C13_Witness ==
    \E i \in Invocations :
        /\ Done(i)
        /\ event[i].httpMethod # "OPTIONS"
        /\ event[i].requestContext.http.method = "OPTIONS"
        /\ event[i].body.wire = "json"
        /\ validateContactForm(config, event[i].body.val.fields).ok
        /\ response[i].statusCode = 200
        /\ NoCalls(i)

(***************************************************************************)
(* C14: every response the handler returns, on whatever path, has the      *)
(* headers Content-Type: application/json, Access-Control-Allow-Origin:    *)
(* the configured origin, Access-Control-Allow-Headers: Content-Type and   *)
(* Access-Control-Allow-Methods: POST, OPTIONS.                            *)
(***************************************************************************)
C14_HeadersOnEveryResponse ==
    \A i \in Invocations :
        Done(i) =>
            response[i].headers =
                [ContentType |-> "application/json",
                 AccessControlAllowOrigin |-> config.allowedOrigin,
                 AccessControlAllowHeaders |-> "Content-Type",
                 AccessControlAllowMethods |-> "POST, OPTIONS"]

\* The response of the catch block after a failed dispatch, with an origin
\* set by the environment.
C14_Witness ==
    \E i \in Invocations :
        /\ Done(i)
        /\ config.allowedOrigin = "https://fredjean.net"
        /\ Len(sesCalls[i]) = 1
        /\ response[i].statusCode = 500
        /\ response[i].headers.AccessControlAllowOrigin = "https://fredjean.net"

(***************************************************************************)
(* C15: when sesClient.send rejects, the handler returns 500 and the body  *)
(* is {error: "Unable to send message. Please try again later."} whatever  *)
(* the error is: the message of the error is logged and is no part of the  *)
(* body.                                                                   *)
(***************************************************************************)
DispatchFailed(i) ==
    Done(i) /\ Len(sesCalls[i]) = 1 /\ clients[i].ses = "rejects"

C15_SendFailureBody ==
    \A i \in Invocations :
        DispatchFailed(i) =>
            /\ caughtError[i] \in SesErrors
            /\ response[i].statusCode = 500
            /\ response[i].body =
                   [error |-> [field |-> "",
                               text |-> "Unable to send message. Please try again later.",
                               n |-> 0]]

C15_Witness ==
    \E i \in Invocations :
        /\ DispatchFailed(i)
        /\ caughtError[i] = "Throttling"
        /\ response[i].statusCode = 500

(***************************************************************************)
(* C16: with spam detection disabled, no invocation calls the classifier   *)
(* or writes to the store; the classification stays null, every validated  *)
(* submission is handed to the email capability, and its email has no Spam *)
(* Detection section and no attention marker in the subject.               *)
(***************************************************************************)
C16_DisabledClassification ==
    ~config.spamDetectionEnabled =>
        /\ table = {}
        /\ \A i \in Invocations :
              /\ bedrockCalls[i] = <<>>
              /\ dynamoCalls[i] = <<>>
              /\ ~classificationResult[i].present
              /\ Validated(i) =>
                    /\ Len(sesCalls[i]) = 1
                    /\ ~HasLine(sesCalls[i][1].Body, "Spam Detection:")
                    /\ \A k \in 1..Len(sesCalls[i][1].Body) :
                          sesCalls[i][1].Body[k].text \notin
                              {"  Classification: ", "  Confidence: %", "  Reason: ",
                               "  Bedrock classification failed - failed open"}
                    /\ \A k \in 1..Len(sesCalls[i][1].Subject) :
                          sesCalls[i][1].Subject[k] # "(raised eyebrow)"

\* A validated submission that was sent and answered, detection disabled
C16_Witness ==
    \E i \in Invocations :
        /\ ~config.spamDetectionEnabled
        /\ Done(i)
        /\ Validated(i)
        /\ Len(sesCalls[i]) = 1
        /\ response[i].statusCode = 200
        /\ HasLine(sesCalls[i][1].Body, "Message:")

(***************************************************************************)
(* C17: the steps of an invocation happen in the order decode, validate,   *)
(* classify (when enabled), decide, record or notify, respond.  The        *)
(* classifier is called only in the step in which validation succeeds, on  *)
(* a body that was decoded; with detection enabled a write to the store or *)
(* an email dispatch starts only in the step in which the classifier call  *)
(* settles, with its result (the model's or the fail-open one) in hand;    *)
(* the response is the last step, after which the invocation calls         *)
(* nothing.                                                                *)
(***************************************************************************)
RecordOrNotifyStarts(i) ==
    dynamoCalls'[i] # dynamoCalls[i] \/ sesCalls'[i] # sesCalls[i]

InOrder(i) ==
    /\ bedrockCalls'[i] # bedrockCalls[i] =>
          /\ pc[i] = "idle"
          /\ ~ParseBody(event'[i]).threw
          /\ contactData'[i] # NoContactData
          /\ ~RecordOrNotifyStarts(i)
    /\ RecordOrNotifyStarts(i) =>
          /\ contactData'[i] # NoContactData
          /\ config.spamDetectionEnabled =>
                /\ pc[i] = "awaitBedrock"
                /\ Len(bedrockCalls[i]) = 1
                /\ classificationResult'[i].present
    /\ response'[i] # response[i] =>
          /\ pc[i] # "done"
          /\ pc'[i] = "done"
          /\ bedrockCalls'[i] = bedrockCalls[i]
          /\ ~RecordOrNotifyStarts(i)
    /\ pc[i] = "done" =>
          /\ pc'[i] = "done"
          /\ bedrockCalls'[i] = bedrockCalls[i]
          /\ ~RecordOrNotifyStarts(i)

C17_StepsInOrder == [][\A i \in Invocations : InOrder(i)]_vars

\* Validated, classified, decided, recorded and answered.
C17_Witness ==
    \E i \in Invocations :
        /\ Done(i)
        /\ Validated(i)
        /\ Len(bedrockCalls[i]) = 1
        /\ classificationResult[i].present
        /\ Len(dynamoCalls[i]) = 1
        /\ response[i].statusCode = 200

(***************************************************************************)
(* C18: nothing is retried.  In an invocation the classifier, the store    *)
(* and the email capability are each called at most once, whether the call *)
(* succeeds or fails, and a failed call is followed by its failure path    *)
(* alone: a failed classification by the fail-open result and one          *)
(* dispatch, a failed store write by a null submission id and the success  *)
(* response, a failed dispatch by the 500 response.                        *)
(***************************************************************************)
C18_NoRetry ==
    \A i \in Invocations :
        /\ Len(bedrockCalls[i]) <= 1
        /\ Len(dynamoCalls[i]) <= 1
        /\ Len(sesCalls[i]) <= 1
        /\ (Done(i) /\ bedrockCalls[i] # <<>>
               /\ ClassificationFails(clients[i].bedrock)) =>
              /\ classificationResult[i].failedOpen
              /\ Len(bedrockCalls[i]) = 1
              /\ Forwarded(i)
        /\ (Done(i) /\ dynamoCalls[i] # <<>> /\ clients[i].dynamo = "rejects") =>
              /\ Len(dynamoCalls[i]) = 1
              /\ submissionId[i] = NullId
              /\ table = {}
              /\ response[i].statusCode = 200
        /\ (Done(i) /\ sesCalls[i] # <<>> /\ clients[i].ses = "rejects") =>
              /\ Len(sesCalls[i]) = 1
              /\ response[i].statusCode = 500

\* The classifier and the email capability both failed, each called once.
C18_Witness ==
    \E i \in Invocations :
        /\ Done(i)
        /\ ClassificationFails(clients[i].bedrock)
        /\ clients[i].ses = "rejects"
        /\ Len(bedrockCalls[i]) = 1
        /\ Len(sesCalls[i]) = 1
        /\ response[i].statusCode = 500

(***************************************************************************)
(* C19: when every call to a client settles, every invocation that was     *)
(* started ends, and it ends by returning a response with a status code,   *)
(* the headers and a body, set once; whatever the event (none, or one      *)
(* without body), the context (null, undefined) and the clients passed     *)
(* (objects or not), and whichever of the calls fail, no exception leaves  *)
(* the handler.                                                            *)
(***************************************************************************)
IsResponse(resp) ==
    /\ resp.statusCode \in {200, 400, 500}
    /\ DOMAIN resp.headers = {"ContentType", "AccessControlAllowOrigin",
                              "AccessControlAllowHeaders", "AccessControlAllowMethods"}
    /\ DOMAIN resp.body \in {{"message"}, {"message", "success"}, {"error"},
                              {"error", "field"}}

C19_AlwaysOneResponse ==
    /\ [](\A i \in Invocations : Done(i) => IsResponse(response[i]))
    /\ [][\A i \in Invocations :
            response'[i] # response[i] => pc[i] # "done" /\ pc'[i] = "done"]_vars
    /\ \A i \in Alone : (pc[i] # "idle") ~> Done(i)

\* No context, a function passed for sesClient and nothing for the other
\* clients; the classification failed and the dispatch failed after it.
C19_Witness ==
    \E i \in Invocations :
        /\ Done(i)
        /\ requestId[i] = "local"
        /\ clientArgs[i] =
              [ses |-> "function", bedrock |-> "undefined", dynamo |-> "undefined"]
        /\ ClassificationFails(clients[i].bedrock)
        /\ Len(bedrockCalls[i]) = 1
        /\ clients[i].ses = "rejects"
        /\ Len(sesCalls[i]) = 1
        /\ response[i].statusCode = 500

(***************************************************************************)
(* C20: for the submission x of an invocation that passed validation, the  *)
(* validated fields are the trimmed fields of x; validating x with white   *)
(* space added before or after any of its fields gives the same result;    *)
(* and the trimmed fields are what the classifier prompt, the item of the  *)
(* blocked submission and the email (reply-to, subject, body) carry.       *)
(***************************************************************************)
FieldNames == {"email", "name", "phone", "message"}

\* White space to put before and after a field
Pads ==
    {[before |-> <<>>, after |-> <<>>], [before |-> <<" ">>, after |-> <<>>],
     [before |-> <<>>, after |-> <<"\n">>],
     [before |-> <<"\t", " ">>, after |-> <<" ", "\r">>]}

Padded(x, pad) ==
    [f \in FieldNames |-> Str(pad[f].before \o x[f].s \o pad[f].after)]

Trimmed(x) == [f \in FieldNames |-> Trim(x[f].s)]

Submitted(i) == ParseBody(event[i]).data.fields

C20_TrimmedEverywhere ==
    \A i \in Invocations :
        Validated(i) =>
            LET x == Submitted(i)
                t == Trimmed(x)
            IN  /\ contactData[i] = t
                /\ \A pad \in [FieldNames -> Pads] :
                      LET v == validateContactForm(config, Padded(x, pad))
                      IN  v.ok /\ v.value = t
                /\ \A k \in 1..Len(bedrockCalls[i]) : bedrockCalls[i][k] = t
                /\ \A k \in 1..Len(dynamoCalls[i]) :
                      /\ dynamoCalls[i][k].email = t.email
                      /\ dynamoCalls[i][k].name = t.name
                      /\ dynamoCalls[i][k].phone = t.phone
                      /\ dynamoCalls[i][k].message = t.message
                /\ \A k \in 1..Len(sesCalls[i]) :
                      LET c == sesCalls[i][k]
                      IN  /\ c.ReplyToAddresses =
                                t.name \o <<" ", "<">> \o t.email \o <<">">>
                          /\ c.Subject \in
                                {generateSubject(config, t.message, r) :
                                   r \in {NullResult, classificationResult[i]}}
                          /\ \E n \in 1..Len(c.Body) :
                                c.Body[n] = Line("Name: ", Str(t.name))
                          /\ \E n \in 1..Len(c.Body) :
                                c.Body[n] = Line("Email: ", Str(t.email))
                          /\ \E n \in 1..Len(c.Body) :
                                c.Body[n] = Line("Phone: ", Str(t.phone))
                          /\ \E n \in 1..Len(c.Body) :
                                c.Body[n] = Line("", Str(t.message))

\* A submission with white space around its name and after its message,
\* classified and sent.
C20_Witness ==
    \E i \in Invocations :
        /\ Done(i)
        /\ Validated(i)
        /\ Submitted(i).name.s # contactData[i].name
        /\ Submitted(i).message.s # contactData[i].message
        /\ Len(bedrockCalls[i]) = 1
        /\ Len(sesCalls[i]) = 1

\* C21: validateField applies its checks in a fixed order and gives back
\* the trimmed value only when all of them pass: a value that is not a
\* string, or is the empty string, gives "<field> is required"; a string of
\* white space gives "<field> cannot be empty"; a trimmed length above the
\* greatest length gives "<field> must be less than N characters", N being
\* that length, while a trimmed length equal to it passes; a string the
\* pattern refuses gives "<field> contains invalid characters".
C21_CheckPrecedence ==
    HasValidated =>
        \A f \in FieldNames :
            (\A g \in FieldNames \ {f} : submission[g] = ValidFields[g]) =>
                LET v == submission[f]
                    n == MaxLength(config, f)
                    Message(text, k) == [field |-> f, text |-> text, n |-> k]
                IN  IF v.t # "string" \/ v.s = <<>>
                    THEN ~validation.ok /\ validation.message = Message("is required", 0)
                    ELSE IF Trim(v.s) = <<>>
                    THEN /\ ~validation.ok
                         /\ validation.message = Message("cannot be empty", 0)
                    ELSE IF Len(Trim(v.s)) > n
                    THEN /\ ~validation.ok
                         /\ validation.message =
                                Message("must be less than n characters", n)
                    ELSE IF ~PatternTest(f, Trim(v.s))
                    THEN /\ ~validation.ok
                         /\ validation.message =
                                Message("contains invalid characters", 0)
                    ELSE validation.ok /\ validation.value[f] = Trim(v.s)

\* A name of exactly the greatest length, longer than that before it is
\* trimmed, has been accepted.
C21_Witness ==
    /\ validation.ok
    /\ Len(validation.value.name) = MaxLength(config, "name")
    /\ Len(submission.name.s) > MaxLength(config, "name")

(***************************************************************************)
(* C22, as claimed: the subject of every email sent is the first words of  *)
(* the message with its runs of white space made single spaces, and three  *)
(* dots follow if and only if words were cut off, that is if that text is  *)
(* shorter than the normalized message.  The code compares with the length *)
(* of the message as validated, so a message of few words with two spaces  *)
(* in a row gets the dots with no word cut off.                            *)
(***************************************************************************)
C22_EllipsisIffCut ==
    \A i \in Invocations :
        \A k \in 1..Len(sesCalls[i]) :
            LET normalized == Trim(CollapseWhiteSpace(contactData[i].message))
                cut == FirstWords(normalized, config.subjectWordCount)
                subject == IF Len(cut) < Len(normalized)
                           THEN cut \o <<".", ".", ".">>
                           ELSE cut
            IN  sesCalls[i][k].Subject \in
                    {subject, <<AttentionMarker, " ">> \o subject}

\* C23: the subject of an email sent starts with the attention marker if
\* and only if there is a classification result and its label is SALES, at
\* any confidence, or LEGITIMATE with a confidence below 0.9; no result, a
\* LEGITIMATE of 0.9 or more, and a SPAM or GIBBERISH that was forwarded
\* get no marker.
C23_MarkerIffNotClean ==
    \A i \in Invocations :
        \A k \in 1..Len(sesCalls[i]) :
            LET r == classificationResult[i]
                marked == /\ Len(sesCalls[i][k].Subject) > 0
                          /\ sesCalls[i][k].Subject[1] = AttentionMarker
            IN  marked <=>
                    /\ r.present
                    /\ \/ r.classification = "SALES"
                       \/ /\ r.classification = "LEGITIMATE"
                          /\ JsLess(r.confidence, 90)

\* A GIBBERISH of low confidence has been forwarded, with no marker in the
\* subject.
C23_Witness ==
    \E i \in Invocations :
        /\ Len(sesCalls[i]) = 1
        /\ classificationResult[i].classification = "GIBBERISH"
        /\ sesCalls[i][1].Subject[1] # AttentionMarker

\* C24: for every submission the validator accepted and the handler
\* forwarded, the body of the email holds the validated name, email, phone
\* and message as they are, holds a Spam Detection section if and only if
\* there is a classification result, and the reply-to address is
\* "<name> <email>" of the validated values.
C24_BodyCarriesSubmission ==
    \A i \in Invocations :
        \A k \in 1..Len(sesCalls[i]) :
            LET c == sesCalls[i][k]
                accepted == validateContactForm(config, Submitted(i))
                Carries(text, value) ==
                    \E n \in 1..Len(c.Body) : c.Body[n] = Line(text, Str(value))
            IN  /\ accepted.ok
                /\ Carries("Name: ", accepted.value.name)
                /\ Carries("Email: ", accepted.value.email)
                /\ Carries("Phone: ", accepted.value.phone)
                /\ Carries("", accepted.value.message)
                /\ HasLine(c.Body, "Spam Detection:") <=> classificationResult[i].present
                /\ c.ReplyToAddresses =
                       accepted.value.name \o <<" ", "<">>
                           \o accepted.value.email \o <<">">>

\* A submission classified as SALES has been forwarded with the section in
\* its body.
C24_Witness ==
    \E i \in Invocations :
        /\ Len(sesCalls[i]) = 1
        /\ classificationResult[i].classification = "SALES"
        /\ HasLine(sesCalls[i][1].Body, "Spam Detection:")
        /\ sesCalls[i][1].ReplyToAddresses = <<"J", "o", " ", "<", "j", "@", "e", ".", "c", ">">>

\* C25: every record of a blocked submission that is written has
\* ttl = floor(timestamp / 1000) + 90 * 24 * 3600, later than the time of
\* the call in seconds, carries the validated fields and the
\* classification, confidence and reason as they are, and has for
\* ipAddress requestContext.http.sourceIp if there is one, else
\* requestContext.identity.sourceIp if there is one, else "unknown".
C25_RecordContents ==
    \A i \in Invocations :
        \A k \in 1..Len(dynamoCalls[i]) :
            LET item == dynamoCalls[i][k]
                context == event[i].requestContext
                seconds == item.timestamp \div 1000
            IN  /\ item.timestamp \in Timestamps
                /\ item.ttl = seconds + 90 * 24 * 3600
                /\ item.ttl > seconds
                /\ item.name = contactData[i].name
                /\ item.email = contactData[i].email
                /\ item.phone = contactData[i].phone
                /\ item.message = contactData[i].message
                /\ item.classification = classificationResult[i].classification
                /\ item.confidence = classificationResult[i].confidence
                /\ item.reason = classificationResult[i].reason
                /\ item.ipAddress =
                       IF context.http.sourceIp # "" THEN context.http.sourceIp
                       ELSE IF context.identity.sourceIp # ""
                       THEN context.identity.sourceIp
                       ELSE "unknown"
                /\ clients[i].dynamo = "resolves" /\ pc[i] = "done" => item \in table

\* A blocked submission of an event that has both addresses is in the
\* table, under the address of requestContext.http.
C25_Witness ==
    \E item \in table :
        \E i \in Invocations :
            /\ event[i].requestContext.identity.sourceIp = "10.0.0.1"
            /\ event[i].requestContext.http.sourceIp = "192.168.1.100"
            /\ dynamoCalls[i] = <<item>>
            /\ item.ipAddress = "192.168.1.100"
            /\ item.ttl = 7776001

\* What an invocation holds of its own
Own(i) ==
    <<pc[i], event[i], clients[i], clientArgs[i], requestId[i], contactData[i],
      classificationResult[i], submissionId[i], bedrockCalls[i], dynamoCalls[i],
      sesCalls[i], response[i]>>

\* The invocations whose write to the table has succeeded
Wrote == {i \in Invocations : Done(i) /\ Blocked(i) /\ clients[i].dynamo = "resolves"}

\* The calls of an invocation, whatever the ids of the records
Calls(i) ==
    <<bedrockCalls[i], sesCalls[i],
      [k \in 1..Len(dynamoCalls[i]) |-> [dynamoCalls[i][k] EXCEPT !.submissionId = NullId]]>>

\* C26: under any interleaving of two invocations the store is
\* insert-only.  The table holds exactly the records of the blocked
\* invocations whose write has succeeded, one each, under ids that differ;
\* a step never takes a record out or changes one and adds one at most;
\* a step of one invocation leaves what the other holds as it is, and two
\* invocations given the same event and clients end with the same response
\* and calls wherever the steps of the other fall.
C26_InsertOnly ==
    /\ [](/\ table = {dynamoCalls[i][1] : i \in Wrote}
          /\ Cardinality(table) = Cardinality(Wrote)
          /\ \A i \in Wrote : Len(dynamoCalls[i]) = 1
          /\ \A i, j \in Invocations :
                /\ Done(i) /\ Done(j)
                /\ event[i] = event[j] /\ clients[i] = clients[j]
                => response[i] = response[j] /\ Calls(i) = Calls(j))
    /\ [][/\ table \subseteq table'
          /\ Cardinality(table' \ table) <= 1
          /\ \A x \in table' \ table : \A y \in table : x.submissionId # y.submissionId
          /\ \E i \in Invocations : \A j \in Invocations \ {i} : Own(j)' = Own(j)]_vars

\* Both invocations were blocked at once and each has its record in the
\* table.
C26_Witness ==
    /\ Wrote = Invocations
    /\ Cardinality(table) = 2
    /\ \E i \in Invocations : event[i].requestContext.http.sourceIp = "192.168.1.100"
    /\ \E i \in Invocations : event[i].requestContext.identity.sourceIp = "10.0.0.1"

\* The client returned a JSON object between an opening fence, bare or with
\* the word json, and a closing fence, each on a line of its own.
IsFenced(client) ==
    /\ client.behaviour = "resolves"
    /\ client.decodable
    /\ \E j \in {t.val : t \in {client.text[k] : k \in 1..Len(client.text)}} :
          /\ j.kind = "object"
          /\ client.text \in {<<Fence, NewLine, Value(j), NewLine, Fence>>,
                              <<Fence, Word("json"), NewLine, Value(j), NewLine, Fence>>}

\* The client that returns the same object without the fence
Unfenced(client) ==
    [client EXCEPT !.text = SelectSeq(client.text, LAMBDA t : t.tok = "value")]

\* C27: a model output that is a JSON object {classification, confidence,
\* reason} inside a code fence, bare or marked json, gives the same
\* classification result as the object without the fence, and no fail-open
\* result.
C27_FenceIsTransparent ==
    \A i \in Invocations :
        /\ Len(bedrockCalls[i]) = 1
        /\ pc[i] # "awaitBedrock"
        /\ IsFenced(clients[i].bedrock)
        => /\ classificationResult[i] = classifySubmission(Unfenced(clients[i].bedrock))
           /\ ~classificationResult[i].failedOpen

\* The output in a bare fence has been read as the GIBBERISH it holds and
\* the submission blocked.
C27_Witness ==
    \E i \in Invocations :
        /\ Done(i)
        /\ Blocked(i)
        /\ IsFenced(clients[i].bedrock)
        /\ clients[i].bedrock.text[2] = NewLine
        /\ classificationResult[i].classification = "GIBBERISH"

(***************************************************************************)
(* C28, as claimed: every classification result handed to the decision     *)
(* policy has a label among LEGITIMATE, SPAM, SALES and GIBBERISH and a    *)
(* numeric confidence between 0 and 1, whatever text the model returned.   *)
(* The code copies the keys of the parsed JSON without a check, so an      *)
(* object without confidence gives a result whose confidence is undefined. *)
(***************************************************************************)
C28_ResultIsWellFormed ==
    \A i \in Invocations :
        classificationResult[i].present =>
            /\ classificationResult[i].classification \in
                   {"LEGITIMATE", "SPAM", "SALES", "GIBBERISH"}
            /\ classificationResult[i].confidence.t = "number"
            /\ classificationResult[i].confidence.n \in 0..100

\* The body is of the encoding the event announces: base64 if and only if
\* flagged, a form if and only if a content-type header, under either key,
\* names the form type.
WellFormed(ev) ==
    /\ ev.body.b64 = ev.isBase64Encoded
    /\ ev.body.wire \in {"json", "form"}
    /\ ev.body.wire = "form" <=>
          \/ ev.headers.lower \in FormContentTypes
          \/ ev.headers.lower = "" /\ ev.headers.upper \in FormContentTypes

\* C29: the body is decoded from base64 first if the event flags it, then
\* read as a form if the content-type header, under the key content-type
\* or Content-Type, names the form type, and as JSON otherwise; the same
\* four values sent as JSON, as a form, or as either in base64 give the
\* same validated submission and the same outcome, and a body that is not
\* of the announced encoding gives a 400.
C29_SameSubmissionAnyTransport ==
    /\ \A i \in Invocations :
          Done(i) /\ event[i].body.val \in {Object(ValidFields), Object(ValidFormFields)}
          => IF WellFormed(event[i])
             THEN /\ Validated(i)
                  /\ contactData[i] = Trimmed(ValidFields)
             ELSE /\ response[i].statusCode = 400
                  /\ ~Validated(i)
                  /\ NoCalls(i)
    /\ \A i, j \in Invocations :
          /\ Done(i) /\ Done(j)
          /\ WellFormed(event[i]) /\ WellFormed(event[j])
          /\ event[i].requestContext = event[j].requestContext
          /\ clients[i] = clients[j]
          => /\ contactData[i] = contactData[j]
             /\ response[i] = response[j]
             /\ Calls(i) = Calls(j)

\* The submission sent as JSON and as a form in base64 has been forwarded
\* twice with the same email.
C29_Witness ==
    \E i, j \in Invocations :
        /\ Done(i) /\ Done(j)
        /\ event[i] = PostEvent(JsonBody(Object(ValidFields), FALSE))
        /\ event[j].body = FormBody(ValidFormFields, TRUE)
        /\ Forwarded(i) /\ Forwarded(j)
        /\ sesCalls[i] = sesCalls[j]
        /\ response[i].statusCode = 200

\* C30: with classification disabled, the handler of today and the
\* earlier handler without spam detection cannot be told apart: on the
\* same event and the same behaviour of the SES client both return the
\* same response (status, headers, body) and send the same email command
\* (recipient, sender, reply-to, subject, body, the timestamp apart), and
\* today's handler calls neither the model nor the store.
C30_SameAsEarlierVersion ==
    /\ bedrockCalls[Current] = <<>>
    /\ dynamoCalls[Current] = <<>>
    /\ pc[Current] \notin {"awaitBedrock", "awaitDynamo"}
    /\ Done(Current) /\ Done(Earlier)
       => /\ response[Current] = response[Earlier]
          /\ sesCalls[Current] = sesCalls[Earlier]
    /\ pc[Current] = "awaitSes" /\ pc[Earlier] = "awaitSes"
       => sesCalls[Current] = sesCalls[Earlier]

\* Both versions have sent the same email for a valid submission and
\* returned the success response.
C30_Witness ==
    /\ Done(Current) /\ Done(Earlier)
    /\ Len(sesCalls[Current]) = 1
    /\ sesCalls[Earlier] = sesCalls[Current]
    /\ response[Earlier].statusCode = 200
    /\ response[Current] = response[Earlier]

====
